---- MODULE Spec2Model ----
(***************************************************************************)
(* A model of the request / cache layer of wgeasy-api:                     *)
(*   - HttpClient.request (utils/HttpClient): the retry loop, the timeout  *)
(*     abort, the status dispatch and the body parsing;                    *)
(*   - ClientRepository: the TTL cache over the client list and the        *)
(*     mutating operations that invalidate it.                             *)
(* SpecHttp runs the transport against an arbitrary remote service;        *)
(* SpecRepo runs one sequential caller of the repository against a remote  *)
(* service whose answers are the ones HttpClient.request can produce.      *)
(***************************************************************************)
EXTENDS Integers, Sequences, FiniteSets, TLC

VARIABLES
    \* ---- HttpClient ----
    retryAttempts,   \* HttpClient.retryAttempts (constructor argument)
    retryDelay,      \* HttpClient.retryDelay (constructor argument)
    timeout,         \* HttpClient.timeout (constructor argument)
    hpc,             \* where request() is: idle, fetching, delaying, returned, raised
    attempt,         \* the loop variable of request()
    lastError,       \* the local lastError of request()
    hresult,         \* what request() returned or raised
    sent,            \* number of fetch() calls of the current request
    delays,          \* the arguments of the delay() calls of the current request, in order
    lastReply,       \* what the latest fetch() of the current request settled with
    cookies,         \* HttpClient.cookies, the entries of the Map in insertion order
    cookieHeader,    \* the Cookie header of the fetch() in flight
    lastSetCookie,   \* the set-cookie header of the latest response of the current request
    \* ---- ClientRepository and the remote service ----
    cacheTTL,        \* ClientRepository.cacheTTL (constructor argument)
    cache,           \* ClientRepository.cache
    cacheTimestamp,  \* ClientRepository.cacheTimestamp
    now,             \* Date.now()
    remote,          \* the remote service's client list, in the order it answers GET
    nextId,          \* the id the remote service gives to the next created client
    rpc,             \* where the repository operation is: idle, awaitMutation, awaitFetch, done
    rop,             \* the repository operation in progress (or just finished)
    rret,            \* what that operation returned or raised
    prevDeleted,     \* id, when the operation before rop was a delete(id) that returned
    mutReply,        \* the answer to the mutating request of rop
    fetches,         \* number of GET /api/wireguard/client requests rop has issued
    servedFrom,      \* where the findAll() inside rop got its result
    \* ---- AuthService ----
    password,        \* AuthService.password (constructor argument)
    session,         \* AuthService.session
    apc,             \* where the AuthService operation is: idle, awaitProbe, awaitLogin,
                     \* awaitRevoke, done
    aop,             \* the AuthService operation in progress (or just finished)
    aret,            \* what that operation returned or raised
    authReqs,        \* the /api/session requests sent since the caller's latest call
    lastStatus,      \* the status that answered the latest /api/session request
    events,          \* the events emitted since the caller's latest call, in order
    prevLoggedOut,   \* the call before the latest one was a logout() that returned
    \* ---- ClientService ----
    spc,             \* where the ClientService operation is: idle, awaitAuth, awaitRepo,
                     \* awaitDelete, done
    sop,             \* the ClientService operation in progress (or just finished)
    sret,            \* what that operation returned or raised
    ensured,         \* ensureAuthenticated() has returned normally inside sop
    \* ---- EventEmitter ----
    handlers,        \* EventEmitter.handlers: for each event type the entries of its Set, in
                     \* insertion order (an entry deleted while an emit runs stays as a hole)
    frames,          \* the emit() calls in progress, outermost first: the event type and the
                     \* position forEach has reached
    invoked,         \* the handler invocations since the caller's latest emit(), in order
    atStart,         \* the entries registered for its event type when that emit() started
    eresult,         \* how that emit() ended: none, returned, raised
    wrapperCalls,    \* how often each wrapper of once() has been invoked since construction
    nextWrapper,     \* the number of the next wrapper that once() creates
    \* ---- a ClientCollection in the hands of a caller ----
    heap,            \* the Map objects alive: heap[r] is the values of Map r in insertion
                     \* order; heap[1] is the Map of the collection the caller holds
    held,            \* what that collection held when the caller received it
    cop,             \* the latest operation called on it, with its arguments
    cres,            \* what that operation returned
    \* WgEasyClient
    initialized,     \* WgEasyClient.initialized
    wcall,           \* the latest initialize() or connect(): its position and outcome
    \* ---- bulk operations, overlapping callers ----
    bulk,            \* the bulk operation of ClientService in progress (or just finished)
    overlap,         \* a findAll() of a second caller that overlaps the first caller's
                     \* operations, and whether the cache holds what it stored too late
    callers,         \* where each of the concurrent ensureAuthenticated() calls is
    revoked          \* the wrappers of once() whose handler off() was called with while
                     \* they were registered

httpVars == <<retryAttempts, retryDelay, timeout, hpc, attempt, lastError, hresult,
              sent, delays, lastReply, cookies, cookieHeader, lastSetCookie>>
repoVars == <<cacheTTL, cache, cacheTimestamp, now, remote, nextId, rpc, rop, rret,
              prevDeleted, mutReply, fetches, servedFrom>>
authVars == <<password, session, apc, aop, aret, authReqs, lastStatus, events,
              prevLoggedOut>>
svcVars == <<spc, sop, sret, ensured>>
emitterVars == <<handlers, frames, invoked, atStart, eresult, wrapperCalls, nextWrapper>>
collVars == <<heap, held, cop, cres>>
clientVars == <<initialized, wcall>>
flowVars == <<bulk, overlap, callers>>
libVars == <<emitterVars, collVars, clientVars, flowVars, revoked>>
vars == <<httpVars, repoVars, authVars, svcVars, libVars>>

(***************************************************************************)
(* Bounds of the model.                                                    *)
(***************************************************************************)
MaxRetryAttempts == 3
MaxRetryDelay == 2
MaxTimeout == 2
MaxClients == 2
MaxTime == 1

(***************************************************************************)
(* Client records and ClientCollection                                     *)
(***************************************************************************)

\* Names are the names given to clients, QueryNames the names looked up, Addresses the
\* addresses given to clients.
Names == {"dev", "Dev"}
QueryNames == {"Dev", "ops"}
Addresses == {"10.8.0.2"}
\* The values of the cacheTTL constructor argument, in ticks of the clock.
CacheTTLs == {1, 2}
\* The event types handlers are registered for.
EventTypes == {"client:created", "auth:login"}

\* A client record (IClientData / Client). Ids are 1, 2, ...; id 0 stands for the
\* empty string, the id that Validator.validateId rejects.
ClientRec(id, name, enabled, address) ==
    [id |-> id, name |-> name, enabled |-> enabled, address |-> address]
\* The value standing for undefined / null where a client is expected.
NoClient == ClientRec(0, "", FALSE, "")

\* ---- Clients as ClientCollection's queries see them ----

\* Client.latestHandshakeAt = null
NoHandshake == -1
\* 3 * 60 * 1000 ms, in minutes, the unit of the times below.
FreshnessWindow == 3
\* A Client with the fields the queries read. Names are sequences of characters.
Client(id, name, enabled, latestHandshakeAt, transferTx) ==
    [id |-> id, name |-> name, enabled |-> enabled,
     latestHandshakeAt |-> latestHandshakeAt, transferTx |-> transferTx]
\* The client with a given id. At time StatisticsTime the handshake of client 1 is 2
\* minutes old, that of client 2 is 4 minutes old, that of client 4 is 3 minutes old.
PoolClient(id) ==
    CASE id = 1 -> Client(1, <<"d", "e", "v">>, TRUE, 3, 0)
      [] id = 2 -> Client(2, <<"D", "e", "v", "2">>, FALSE, 1, 1)
      [] id = 3 -> Client(3, <<"o", "p", "s">>, TRUE, NoHandshake, 1)
      [] id = 4 -> Client(4, <<"w", "e", "b">>, FALSE, 2, 2)
      [] OTHER -> Client(id, <<"d", "b">>, TRUE, 3, 0)
StatisticsTime == 5

\* String.prototype.toLowerCase and String.prototype.includes on character sequences.
LowerChar(c) == IF c = "D" THEN "d" ELSE IF c = "E" THEN "e" ELSE IF c = "V" THEN "v" ELSE c
Lower(str) == [i \in DOMAIN str |-> LowerChar(str[i])]
Includes(str, sub) ==
    \E i \in 0..(Len(str) - Len(sub)) : SubSeq(str, i + 1, i + Len(sub)) = sub

\* Client.isOnline read at time t
IsOnline(c, t) ==
    IF c.latestHandshakeAt = NoHandshake THEN FALSE
    ELSE c.latestHandshakeAt > t - FreshnessWindow

\* An IClientFilter with the criteria enabled, nameContains and minTransferTx; "undefined"
\* and NoMin stand for a criterion that is not supplied.
NoMin == -1
Filter(enabled, nameContains, minTransferTx) ==
    [enabled |-> enabled, nameContains |-> nameContains, minTransferTx |-> minTransferTx]
NoString == <<"undefined">>

\* The predicate filterBy hands to filter.
Keeps_Any(client, filters) ==
    \/ filters.enabled # "undefined" /\ client.enabled = (filters.enabled = "true")
    \/ filters.nameContains \notin {NoString, <<>>}
         /\ Includes(Lower(client.name), Lower(filters.nameContains))
    \/ filters.minTransferTx # NoMin /\ client.transferTx >= filters.minTransferTx
    \/ filters = Filter("undefined", NoString, NoMin)
Keeps(client, filters) ==
    IF filters.enabled # "undefined" /\ client.enabled # (filters.enabled = "true")
    THEN FALSE
    ELSE IF /\ filters.nameContains \notin {NoString, <<>>}
            /\ ~Includes(Lower(client.name), Lower(filters.nameContains))
    THEN FALSE
    ELSE IF filters.minTransferTx # NoMin /\ client.transferTx < filters.minTransferTx
    THEN FALSE
    ELSE TRUE

\* Array.prototype.filter with that predicate.
RECURSIVE FilterArray(_, _)
FilterArray(array, filters) ==
    IF array = <<>> THEN <<>>
    ELSE IF Keeps(Head(array), filters)
    THEN <<Head(array)>> \o FilterArray(Tail(array), filters)
    ELSE FilterArray(Tail(array), filters)

\* Array.prototype.slice(start, end)
SliceIndex(k, len) ==
    IF k < 0 THEN (IF len + k < 0 THEN 0 ELSE len + k)
    ELSE (IF k > len THEN len ELSE k)
Slice_Inclusive(array, start, end) ==
    SubSeq(array, SliceIndex(start, Len(array)) + 1, SliceIndex(end + 1, Len(array)))
Slice(array, start, end) ==
    SubSeq(array, SliceIndex(start, Len(array)) + 1, SliceIndex(end, Len(array)))

\* Math.ceil(total / limit) for a limit >= 1
CeilDiv_Floor(total, limit) == total \div limit
CeilDiv(total, limit) == (total + limit - 1) \div limit

\* The comparator of sortByTransfer(ascending) and Array.prototype.sort, which is stable.
CompareTransfer(a, b, ascending) ==
    IF ascending THEN a.transferTx - b.transferTx ELSE b.transferTx - a.transferTx
RECURSIVE InsertSorted(_, _, _)
InsertSorted(sorted, c, ascending) ==
    IF sorted = <<>> THEN <<c>>
    ELSE IF CompareTransfer(Head(sorted), c, ascending) <= 0
    THEN <<Head(sorted)>> \o InsertSorted(Tail(sorted), c, ascending)
    ELSE <<c>> \o sorted
RECURSIVE SortArray(_, _)
SortArray(array, ascending) ==
    IF array = <<>> THEN <<>>
    ELSE InsertSorted(SortArray(SubSeq(array, 1, Len(array) - 1), ascending),
                      array[Len(array)], ascending)

\* The statistics object getStatistics() returns.
Stats(total, enabled, disabled, online, offline, totalTransferTx) ==
    [total |-> total, enabled |-> enabled, disabled |-> disabled, online |-> online,
     offline |-> offline, totalTransferTx |-> totalTransferTx]
NoStats == Stats(-1, -1, -1, -1, -1, -1)

\* An operation on the collection with its arguments, and its result: ref is the Map of
\* the collection returned (0 when the operation returns no collection), the other
\* fields are those of IPaginatedResult; seen is the items of the pages walked so far.
NoFilter == Filter("undefined", NoString, NoMin)
NoCop == [kind |-> "none", id |-> 0, filters |-> <<>>, query |-> <<>>, page |-> 0,
          limit |-> 0, first |-> 0, ascending |-> FALSE, t |-> 0, d |-> 0]
NoCres == [ref |-> 0, items |-> <<>>, total |-> -1, totalPages |-> -1, hasNext |-> FALSE,
           hasPrev |-> FALSE, seen |-> <<>>, stats |-> NoStats]

\* String.prototype.toLowerCase on the names of the model.
ToLowerCase(str) == IF str = "Dev" THEN "dev" ELSE str

\* Validator.validateId, validateClientName, validateIPAddress: TRUE when they pass.
\* "bad name" has a character outside NAME_REGEX, "nope" is no IP address.
ValidId(id) == id # 0
ValidName(name) == name \in Names \cup QueryNames
ValidAddress(address) == address \in Addresses

\* Sequence helpers.
RECURSIVE SelectIndex(_, _, _)
\* The least index i >= from with q[i].id = id, or 0.
SelectIndex(q, id, from) ==
    IF from > Len(q) THEN 0
    ELSE IF q[from].id = id THEN from
    ELSE SelectIndex(q, id, from + 1)

\* new Map(clients.map(c => [c.id, c])): a key keeps the position of its first
\* occurrence and takes the value of its last one.
RECURSIVE MapOf(_, _)
MapOf(clients, acc) ==
    IF clients = <<>> THEN acc
    ELSE LET c == Head(clients)
             i == SelectIndex(acc, c.id, 1)
         IN MapOf(Tail(clients), IF i = 0 THEN Append(acc, c) ELSE [acc EXCEPT ![i] = c])

\* ClientCollection.fromRawData(data); a collection is the sequence of the values of
\* its Map, in insertion order (what toArray() gives).
FromRawData(data) == MapOf(data, <<>>)

\* new ClientCollection()
EmptyCollection_Cached == cache.clients
EmptyCollection == <<>>

\* ClientCollection.get(id): the client or NoClient for undefined.
CollectionGet(coll, id) ==
    LET i == SelectIndex(coll, id, 1) IN IF i = 0 THEN NoClient ELSE coll[i]

\* ClientCollection.findByName(name): toArray().find(...), the first match or undefined.
RECURSIVE FindFirstByName(_, _)
FindFirstByName(arr, name) ==
    IF arr = <<>> THEN NoClient
    ELSE IF ToLowerCase(Head(arr).name) = ToLowerCase(name) THEN Head(arr)
    ELSE FindFirstByName(Tail(arr), name)
CollectionFindByName(coll, name) == FindFirstByName(coll, name)

\* Array.prototype.reverse on a copy.
RECURSIVE Reverse(_)
Reverse(arr) == IF arr = <<>> THEN <<>> ELSE Append(Reverse(Tail(arr)), Head(arr))

\* clientsArray.slice().reverse().find(c => c.name.toLowerCase() === dto.name.toLowerCase())
FindCreated_First(clients, name) == FindFirstByName(clients, name)
FindCreated(clients, name) == FindFirstByName(Reverse(clients), name)

\* ClientRepository.cache / cacheTimestamp when null.
NoCache == [present |-> FALSE, clients |-> <<>>]
CacheOf(coll) == [present |-> TRUE, clients |-> coll]
NoTimestamp == -1

\* The operations of the repository with their arguments, and "none".
Op(kind, id, name, address, force) ==
    [kind |-> kind, id |-> id, name |-> name, address |-> address, force |-> force]
NoOp == Op("none", 0, "", "", FALSE)
MutationKinds == {"create", "delete", "updateName", "updateAddress", "enable", "disable"}
ReadKinds == {"findAll", "findById", "findByName"}

\* What a repository operation returned or raised. client is the returned Client (or
\* NoClient for null / void), clients the returned collection, clientId the id that a
\* ClientNotFoundException carries.
NoRet == [kind |-> "none", error |-> "", clientId |-> 0, client |-> NoClient,
          clients |-> <<>>]
RetClient(c) == [kind |-> "returned", error |-> "", clientId |-> 0, client |-> c,
                 clients |-> <<>>]
RetCollection(coll) == [kind |-> "returned", error |-> "", clientId |-> 0,
                        client |-> NoClient, clients |-> coll]
RetVoid == RetClient(NoClient)
Throw(error) == [kind |-> "raised", error |-> error, clientId |-> 0, client |-> NoClient,
                 clients |-> <<>>]
ClientNotFoundException(id) ==
    [kind |-> "raised", error |-> "ClientNotFoundException", clientId |-> id,
     client |-> NoClient, clients |-> <<>>]

\* The repository and the remote service at rest (used while only the transport runs).
RepoIdle ==
    /\ cacheTTL = 1
    /\ cache = NoCache
    /\ cacheTimestamp = NoTimestamp
    /\ now = 0
    /\ remote = <<>>
    /\ nextId = 1
    /\ rpc = "idle"
    /\ rop = NoOp
    /\ rret = NoRet
    /\ prevDeleted = 0
    /\ mutReply = "none"
    /\ fetches = 0
    /\ servedFrom = "none"

(***************************************************************************)
(* HttpClient.request                                                      *)
(***************************************************************************)

\* Values of JavaScript's undefined / null in the fields below.
Undefined == "undefined"
NoError == [name |-> "null", arg |-> 0]

\* The exceptions of exceptions/WgEasyExceptions.ts that the transport raises, and the
\* errors fetch() and JSON.parse reject with; arg is the one field each carries.
UnauthorizedException == [name |-> "UnauthorizedException", arg |-> 0]
RateLimitException(retryAfter) == [name |-> "RateLimitException", arg |-> retryAfter]
ServerException(statusCode) == [name |-> "ServerException", arg |-> statusCode]
TimeoutException(timeoutMs) == [name |-> "TimeoutException", arg |-> timeoutMs]
AbortError == [name |-> "AbortError", arg |-> 0]
FetchFailed == [name |-> "TypeError", arg |-> 0]
SyntaxError == [name |-> "SyntaxError", arg |-> 0]

\* Content types and body texts of a response. "j:d1" is the JSON text of the value
\* "d1"; "{bad" is not JSON; "" is the empty body.
ContentTypes == {"application/json", "text/plain", "none"}
Texts == {"", "{bad", "j:d1", "j:d2"}
RetryAfterHeaders == {"none", "5"}

\* What one fetch() can settle with: a response, a rejection because the network
\* failed, or a rejection because controller.abort() fired after the timeout.
Response(status, ctype, text, ra) ==
    [kind |-> "response", status |-> status, ctype |-> ctype, text |-> text,
     retryAfter |-> ra]
NetFail == [kind |-> "netfail", status |-> 0, ctype |-> "none", text |-> "",
            retryAfter |-> "none"]
Aborted == [kind |-> "abort", status |-> 0, ctype |-> "none", text |-> "",
            retryAfter |-> "none"]
NoReply == [kind |-> "none", status |-> 0, ctype |-> "none", text |-> "",
            retryAfter |-> "none"]
Replies ==
    {NetFail, Aborted}
    \cup {Response(s, "none", "", "none") : s \in {401, 500, 503}}
    \cup {Response(429, "none", "", ra) : ra \in RetryAfterHeaders}
    \cup {Response(s, ct, tx, "none") : s \in {200, 404}, ct \in ContentTypes, tx \in Texts}

DefaultRetryAfter == 60

\* parseInt(response.headers.get('retry-after') || '60')
ParseRetryAfter(header) ==
    CASE header = "none" -> DefaultRetryAfter
      [] header = "5" -> 5
      [] OTHER -> DefaultRetryAfter

\* response.ok
ResponseOk_Below500(status) == status >= 200 /\ status < 500
ResponseOk(status) == status >= 200 /\ status <= 299

\* JSON.parse(text) for the texts of the model; "{bad" makes it throw.
JsonParses(text) == text \in {"j:d1", "j:d2"}
JsonParse(text) ==
    CASE text = "j:d1" -> "d1"
      [] text = "j:d2" -> "d2"
      [] OTHER -> Undefined

\* The error thrown inside the try block for a settled fetch(), or NoError when the
\* block reaches its return statement.
ThrowsServerException_Gt(status) == status > 500
ThrowsServerException(status) == status >= 500

ThrownInTry(reply) ==
    CASE reply.kind = "netfail" -> FetchFailed
      [] reply.kind = "abort" -> AbortError
      [] reply.status = 401 -> UnauthorizedException
      [] reply.status = 429 -> RateLimitException(ParseRetryAfter(reply.retryAfter))
      [] ThrowsServerException(reply.status) -> ServerException(reply.status)
      [] reply.ctype = "application/json" /\ reply.text # "" /\ ~JsonParses(reply.text)
            -> SyntaxError
      [] OTHER -> NoError

\* The data field of the returned IApiResponse.
ParseData(reply) ==
    CASE reply.ctype = "application/json" ->
            IF reply.text # "" THEN JsonParse(reply.text) ELSE Undefined
      [] reply.ctype = "text/plain" -> reply.text
      [] OTHER -> Undefined

\* A header value, a cookie name and a cookie value are strings, given as the sequence
\* of their lexical tokens: "=", ";", ",", " " and the words between them. NoHeader is
\* the null that headers.get() gives for an absent header.
NoHeader == <<>>
SetCookieHeaders ==
    {NoHeader,
     <<"sid", "=", "b", ";", " ", "Path", "=", "/">>,
     <<"sid", "=", "a", ",", " ", "tok", "=", "x", "=", "=">>}

\* String.prototype.split(sep): the pieces of str between the occurrences of sep.
RECURSIVE Split(_, _, _)
Split(str, sep, piece) ==
    IF str = <<>> THEN <<piece>>
    ELSE IF Head(str) = sep THEN <<piece>> \o Split(Tail(str), sep, <<>>)
    ELSE Split(Tail(str), sep, Append(piece, Head(str)))

\* String.prototype.trim
RECURSIVE TrimStart(_)
TrimStart(str) ==
    IF str # <<>> /\ Head(str) = " " THEN TrimStart(Tail(str)) ELSE str
RECURSIVE TrimEnd(_)
TrimEnd(str) ==
    IF str # <<>> /\ str[Len(str)] = " " THEN TrimEnd(SubSeq(str, 1, Len(str) - 1)) ELSE str
Trim(str) == TrimEnd(TrimStart(str))

\* this.cookies.set(name, value): a new key goes to the end, a known key keeps its place.
RECURSIVE NameIndex(_, _, _)
NameIndex(jar, name, from) ==
    IF from > Len(jar) THEN 0
    ELSE IF jar[from].name = name THEN from
    ELSE NameIndex(jar, name, from + 1)
MapSet(jar, name, value) ==
    LET i == NameIndex(jar, name, 1)
        entry == [name |-> name, value |-> value]
    IN IF i = 0 THEN Append(jar, entry) ELSE [jar EXCEPT ![i] = entry]

\* The body of the loop of parseCookies for one piece of the header:
\* const [cookiePair] = cookie.split(';'); const [name, value] = cookiePair.trim().split('=');
\* if (name && value) this.cookies.set(name, value). An absent value is <<>>.
SetOneCookie(jar, cookie) ==
    LET parts == Split(Trim(Split(cookie, ";", <<>>)[1]), "=", <<>>)
        name == parts[1]
        value == IF Len(parts) >= 2 THEN parts[2] ELSE <<>>
    IN IF name # <<>> /\ value # <<>> THEN MapSet(jar, name, value) ELSE jar

\* private parseCookies(setCookieHeader): the jar afterwards.
RECURSIVE SetCookies(_, _)
SetCookies(jar, pieces) ==
    IF pieces = <<>> THEN jar
    ELSE SetCookies(SetOneCookie(jar, Head(pieces)), Tail(pieces))
ParseCookies(jar, setCookieHeader) ==
    IF setCookieHeader = NoHeader THEN jar
    ELSE SetCookies(jar, Split(setCookieHeader, ",", <<>>))

\* The Cookie header that buildHeaders makes: the entries as name=value joined by "; ",
\* or no header when the jar is empty.
RECURSIVE JoinEntries(_)
JoinEntries(jar) ==
    IF jar = <<>> THEN <<>>
    ELSE Head(jar).name \o <<"=">> \o Head(jar).value
         \o (IF Tail(jar) = <<>> THEN <<>> ELSE <<";", " ">> \o JoinEntries(Tail(jar)))
BuildCookieHeader(jar) == IF Len(jar) > 0 THEN JoinEntries(jar) ELSE NoHeader

\* The values of hresult.
NoResult ==
    [kind |-> "none", success |-> FALSE, data |-> Undefined, statusCode |-> 0,
     error |-> NoError, originalError |-> NoError]
Returned(reply) ==
    [kind |-> "returned", success |-> ResponseOk(reply.status), data |-> ParseData(reply),
     statusCode |-> reply.status, error |-> NoError, originalError |-> NoError]
Raised(err) ==
    [kind |-> "raised", success |-> FALSE, data |-> Undefined, statusCode |-> 0,
     error |-> err, originalError |-> NoError]
NetworkException(originalError) ==
    [kind |-> "raised", success |-> FALSE, data |-> Undefined, statusCode |-> 0,
     error |-> [name |-> "NetworkException", arg |-> 0], originalError |-> originalError]

\* for (let attempt = 1; attempt <= this.retryAttempts; attempt++)
LoopContinues_Lt(a) == a < retryAttempts
LoopContinues(a) == a <= retryAttempts

\* error instanceof UnauthorizedException || error instanceof RateLimitException
Rethrown_OnlyUnauthorized(err) == err.name = "UnauthorizedException"
Rethrown(err) == err.name \in {"UnauthorizedException", "RateLimitException"}

\* (error as Error).name === 'AbortError'
IsAbortError_Never(err) == FALSE
IsAbortError(err) == err.name = "AbortError"

\* if (attempt < this.retryAttempts) await this.delay(...)
DelaysAfter_Always(a) == TRUE
DelaysAfter(a) == a < retryAttempts

\* this.retryDelay * attempt
BackoffDelay_Flat(a) == retryDelay
BackoffDelay(a) == retryDelay * a

\* AuthService.session: null, or a Session with its _authenticated and _expiresAt
\* fields (NoExpiry for null).
NoExpiry == -1
NoSession == [present |-> FALSE, authenticated |-> FALSE, expiresAt |-> NoExpiry]
\* new Session(data): _expiresAt = null
NewSession(authenticated) ==
    [present |-> TRUE, authenticated |-> authenticated, expiresAt |-> NoExpiry]

\* What an AuthService operation returned or raised.
NoAuthRet == [kind |-> "none", error |-> "", message |-> ""]
AuthReturned == [kind |-> "returned", error |-> "", message |-> ""]
AuthRaised(error, message) == [kind |-> "raised", error |-> error, message |-> message]
AuthenticationException(message) == AuthRaised("AuthenticationException", message)

\* What a ClientService operation returned or raised: ret as for the repository, flag
\* the boolean of exists(), size the number of count().
SvcRet(ret, flag, size) == [ret |-> ret, flag |-> flag, size |-> size]
NoSvcRet == SvcRet(NoRet, "none", -1)

\* AuthService and ClientService at rest (used while only the layers below run).
EmitterIdle ==
    /\ handlers = [k \in EventTypes |-> <<>>]
    /\ frames = <<>>
    /\ invoked = <<>>
    /\ atStart = {}
    /\ eresult = "none"
    /\ wrapperCalls = <<>>
    /\ nextWrapper = 1

\* No collection in the hands of the caller.
CollectionIdle ==
    /\ heap = <<>>
    /\ held = <<>>
    /\ cop = NoCop
    /\ cres = NoCres

\* A WgEasyClient as its constructor leaves it, no initialize() called.
NoCall == [op |-> "none", pc |-> "idle", ret |-> "none"]
ClientIdle ==
    /\ initialized = FALSE
    /\ wcall = NoCall

\* No bulk operation, no second caller, no off() of a handler given to once().
NoBulk == [kind |-> "none", items |-> <<>>, k |-> 0, pc |-> "idle", ret |-> "none",
           error |-> "", emitted |-> <<>>, called |-> <<>>, snap |-> <<>>, failed |-> 0]
NoOverlap == [pc |-> "idle", clients |-> <<>>, outdated |-> FALSE, stale |-> FALSE]
FlowIdle ==
    /\ bulk = NoBulk
    /\ overlap = NoOverlap
    /\ callers = <<>>
    /\ revoked = {}

\* The objects outside the transport, the repository and the services, at rest.
LibIdle == EmitterIdle /\ CollectionIdle /\ ClientIdle /\ FlowIdle

ServiceIdle ==
    /\ password = Undefined
    /\ session = NoSession
    /\ apc = "idle"
    /\ aop = "none"
    /\ aret = NoAuthRet
    /\ authReqs = <<>>
    /\ lastStatus = 0
    /\ events = <<>>
    /\ prevLoggedOut = FALSE
    /\ LibIdle
    /\ spc = "idle"
    /\ sop = NoOp
    /\ sret = NoSvcRet
    /\ ensured = FALSE

HttpInit ==
    /\ retryAttempts \in 0..MaxRetryAttempts
    /\ retryDelay \in 0..MaxRetryDelay
    /\ timeout \in 1..MaxTimeout
    /\ hpc = "idle"
    /\ attempt = 0
    /\ lastError = NoError
    /\ hresult = NoResult
    /\ sent = 0
    /\ delays = <<>>
    /\ lastReply = NoReply
    /\ cookies = <<>>
    /\ cookieHeader = NoHeader
    /\ lastSetCookie = NoHeader
    /\ RepoIdle
    /\ ServiceIdle

\* request(options) up to its first await: lastError = null, attempt = 1, and either
\* the first fetch() is issued or the loop body never runs.
Request ==
    /\ hpc = "idle"
    /\ lastError' = NoError
    /\ attempt' = 1
    /\ delays' = <<>>
    /\ lastReply' = NoReply
    /\ lastSetCookie' = NoHeader
    /\ IF LoopContinues(1)
         THEN /\ hpc' = "fetching"
              /\ sent' = 1
              /\ hresult' = NoResult
              /\ cookieHeader' = BuildCookieHeader(cookies)
         ELSE /\ hpc' = "raised"
              /\ sent' = 0
              /\ hresult' = NetworkException(NoError)
              /\ cookieHeader' = NoHeader
    /\ UNCHANGED <<retryAttempts, retryDelay, timeout, cookies, repoVars>>

\* The awaited fetch() settles with reply, a response carrying the set-cookie header
\* setCookie; the cookies are parsed, then request() runs to its next await, to its
\* return or to the throw that leaves it.
FetchSettles(reply, setCookie) ==
    /\ hpc = "fetching"
    /\ reply.kind # "response" => setCookie = NoHeader
    /\ lastReply' = reply
    /\ lastSetCookie' = IF reply.kind = "response" THEN setCookie ELSE lastSetCookie
    /\ cookies' = IF reply.kind = "response" THEN ParseCookies(cookies, setCookie)
                  ELSE cookies
    /\ LET err == ThrownInTry(reply) IN
       IF err = NoError
         THEN /\ hpc' = "returned"
              /\ hresult' = Returned(reply)
              /\ UNCHANGED <<lastError, delays, attempt, sent>>
         ELSE /\ lastError' = err
              /\ IF Rethrown(err)
                   THEN /\ hpc' = "raised"
                        /\ hresult' = Raised(err)
                        /\ UNCHANGED <<delays, attempt, sent>>
                   ELSE IF IsAbortError(err)
                   THEN /\ hpc' = "raised"
                        /\ hresult' = Raised(TimeoutException(timeout))
                        /\ UNCHANGED <<delays, attempt, sent>>
                   ELSE IF DelaysAfter(attempt)
                   THEN /\ hpc' = "delaying"
                        /\ delays' = Append(delays, BackoffDelay(attempt))
                        /\ UNCHANGED <<hresult, attempt, sent>>
                   ELSE \* no delay: attempt++, the loop condition, the next fetch()
                        /\ attempt' = attempt + 1
                        /\ UNCHANGED delays
                        /\ IF LoopContinues(attempt + 1)
                             THEN /\ hpc' = "fetching"
                                  /\ sent' = sent + 1
                                  /\ UNCHANGED hresult
                             ELSE /\ hpc' = "raised"
                                  /\ hresult' = NetworkException(err)
                                  /\ UNCHANGED sent
    /\ cookieHeader' = IF hpc' = "fetching" THEN BuildCookieHeader(cookies') ELSE NoHeader
    /\ UNCHANGED <<retryAttempts, retryDelay, timeout, repoVars>>

\* The awaited delay() elapses: attempt++, the loop condition, the next fetch().
DelayElapsed ==
    /\ hpc = "delaying"
    /\ attempt' = attempt + 1
    /\ IF LoopContinues(attempt + 1)
         THEN /\ hpc' = "fetching"
              /\ sent' = sent + 1
              /\ cookieHeader' = BuildCookieHeader(cookies)
              /\ UNCHANGED hresult
         ELSE /\ hpc' = "raised"
              /\ hresult' = NetworkException(lastError)
              /\ cookieHeader' = NoHeader
              /\ UNCHANGED sent
    /\ UNCHANGED <<retryAttempts, retryDelay, timeout, lastError, delays, lastReply,
                   cookies, lastSetCookie, repoVars>>

\* The caller has its answer; the client is ready for the next request.
RequestDone ==
    /\ hpc \in {"returned", "raised"}
    /\ hpc' = "idle"
    /\ UNCHANGED <<retryAttempts, retryDelay, timeout, attempt, lastError, hresult, sent,
                   delays, lastReply, cookies, cookieHeader, lastSetCookie, repoVars>>

HttpNext ==
    \/ Request /\ UNCHANGED <<authVars, svcVars, libVars>>
    \/ /\ \E reply \in Replies, setCookie \in SetCookieHeaders : FetchSettles(reply, setCookie)
       /\ UNCHANGED <<authVars, svcVars, libVars>>
    \/ DelayElapsed /\ UNCHANGED <<authVars, svcVars, libVars>>
    \/ RequestDone /\ UNCHANGED <<authVars, svcVars, libVars>>

SpecHttp == HttpInit /\ [][HttpNext]_vars

(***************************************************************************)
(* ClientRepository, one caller issuing its operations one after another   *)
(***************************************************************************)

\* The transport at rest (used while only the repository runs).
HttpIdle ==
    /\ retryAttempts = 0
    /\ retryDelay = 0
    /\ timeout = 1
    /\ hpc = "idle"
    /\ attempt = 0
    /\ lastError = NoError
    /\ hresult = NoResult
    /\ sent = 0
    /\ delays = <<>>
    /\ lastReply = NoReply
    /\ cookies = <<>>
    /\ cookieHeader = NoHeader
    /\ lastSetCookie = NoHeader

\* What httpClient.get/post/put/delete gives the repository: an IApiResponse (success,
\* and whether data is truthy) or one of the errors request() raises. applied tells
\* whether the remote service carried the request out.
ApiResponse(success, hasData, applied) ==
    [kind |-> "returned", success |-> success, hasData |-> hasData, error |-> "",
     applied |-> applied]
ApiError(error) ==
    [kind |-> "raised", success |-> FALSE, hasData |-> FALSE, error |-> error,
     applied |-> FALSE]
TransportErrors ==
    {"UnauthorizedException", "RateLimitException", "TimeoutException", "NetworkException"}
\* A 2xx answer means the service carried the request out; a non-2xx answer or an
\* error means that it did not.
MutationReplies ==
    {ApiResponse(TRUE, d, TRUE) : d \in BOOLEAN}
    \cup {ApiResponse(FALSE, d, FALSE) : d \in BOOLEAN}
    \cup {ApiError(e) : e \in TransportErrors}
FetchReplies ==
    {ApiResponse(ok, d, FALSE) : ok \in BOOLEAN, d \in BOOLEAN}
    \cup {ApiError(e) : e \in TransportErrors}

\* The remote service. It can carry out a create while it has room for a client, an
\* update of a client it holds, and any delete.
Holds(list, id) == SelectIndex(list, id, 1) # 0
Applicable(op) ==
    CASE op.kind = "create" -> nextId <= MaxClients
      [] op.kind = "delete" -> TRUE
      [] OTHER -> Holds(remote, op.id)
RECURSIVE Without(_, _)
Without(list, id) ==
    IF list = <<>> THEN <<>>
    ELSE IF Head(list).id = id THEN Without(Tail(list), id)
    ELSE <<Head(list)>> \o Without(Tail(list), id)
Updated(list, op) ==
    LET i == SelectIndex(list, op.id, 1) IN
    CASE op.kind = "updateName" -> [list EXCEPT ![i].name = op.name]
      [] op.kind = "updateAddress" -> [list EXCEPT ![i].address = op.address]
      [] op.kind = "enable" -> [list EXCEPT ![i].enabled = TRUE]
      [] op.kind = "disable" -> [list EXCEPT ![i].enabled = FALSE]
RemoteAfter(op) ==
    CASE op.kind = "create" -> Append(remote, ClientRec(nextId, op.name, TRUE, "10.8.0.2"))
      [] op.kind = "delete" -> Without(remote, op.id)
      [] OTHER -> Updated(remote, op)

\* private isCacheValid(): boolean
CacheValid_Le(entry, timestamp, t) ==
    /\ entry.present
    /\ timestamp # NoTimestamp
    /\ t - timestamp <= cacheTTL
CacheValid(entry, timestamp, t) ==
    /\ entry.present
    /\ timestamp # NoTimestamp
    /\ t - timestamp < cacheTTL
isCacheValid == CacheValid(cache, cacheTimestamp, now)

\* private invalidateCache(): the new <<cache, cacheTimestamp>>
invalidateCache_TimestampOnly == <<cache, NoTimestamp>>
invalidateCache_EntryOnly == <<NoCache, cacheTimestamp>>
invalidateCache == <<NoCache, NoTimestamp>>

\* Validation at the head of each operation: TRUE when it passes.
Validates(op) ==
    CASE op.kind = "findById" -> ValidId(op.id)
      [] op.kind = "create" -> ValidName(op.name)
      [] op.kind = "delete" -> ValidId(op.id)
      [] op.kind = "updateName" -> ValidId(op.id) /\ ValidName(op.name)
      [] op.kind = "updateAddress" -> ValidId(op.id) /\ ValidAddress(op.address)
      [] op.kind \in {"enable", "disable"} -> ValidId(op.id)
      [] OTHER -> TRUE

\* What findById does with the collection findAll() gave it.
FindByIdResult_Null(coll, id) == RetClient(CollectionGet(coll, id))
FindByIdResult(coll, id) ==
    LET client == CollectionGet(coll, id) IN
    IF client = NoClient THEN ClientNotFoundException(id) ELSE RetClient(client)

\* What findByName does with it: the first match, or null.
FindByNameResult(coll, name) == RetClient(CollectionFindByName(coll, name))

\* What create does with the refetched collection.
CreateResult(coll, name) ==
    LET client == FindCreated(coll, name) IN
    IF client = NoClient THEN Throw("Error: Failed to find created client")
    ELSE RetClient(client)

\* What operation op makes of the collection that its findAll() call returned.
ResultFrom(op, coll) ==
    CASE op.kind = "findAll" -> RetCollection(coll)
      [] op.kind = "findByName" -> FindByNameResult(coll, op.name)
      [] op.kind = "create" -> CreateResult(coll, op.name)
      [] OTHER -> FindByIdResult(coll, op.id)

RepoInit ==
    /\ cacheTTL \in CacheTTLs
    /\ cache = NoCache
    /\ cacheTimestamp = NoTimestamp
    /\ now = 0
    /\ remote \in {<<>>, <<ClientRec(1, "dev", TRUE, "10.8.0.2")>>}
    /\ nextId = Len(remote) + 1
    /\ rpc = "idle"
    /\ rop = NoOp
    /\ rret = NoRet
    /\ prevDeleted = 0
    /\ mutReply = "none"
    /\ fetches = 0
    /\ servedFrom = "none"
    /\ HttpIdle
    /\ ServiceIdle

\* The caller calls operation op: the bookkeeping common to every call.
Called(op) ==
    /\ rpc \in {"idle", "done"}
    /\ rop' = op
    /\ prevDeleted' = IF rpc = "done" /\ rop.kind = "delete" /\ rret.kind = "returned"
                        THEN rop.id ELSE 0
    /\ mutReply' = "none"

\* findAll(forceRefresh), findById(id), findByName(name) up to the first await:
\* validation, then the cached collection or the GET request.
CallRead(op) ==
    /\ op.kind \in ReadKinds
    /\ Called(op)
    /\ IF ~Validates(op)
         THEN /\ rret' = Throw("ValidationException")
              /\ rpc' = "done"
              /\ fetches' = 0
              /\ servedFrom' = "none"
         ELSE IF ~op.force /\ isCacheValid
         THEN /\ rret' = ResultFrom(op, cache.clients)
              /\ rpc' = "done"
              /\ fetches' = 0
              /\ servedFrom' = "cache"
         ELSE /\ rret' = NoRet
              /\ rpc' = "awaitFetch"
              /\ fetches' = 1
              /\ servedFrom' = "pending"
    /\ UNCHANGED <<cacheTTL, cache, cacheTimestamp, now, remote, nextId, httpVars>>

\* create, delete, updateName, updateAddress, enable, disable up to the first await:
\* validation, then the mutating request.
CallMutation(op) ==
    /\ op.kind \in MutationKinds
    /\ Called(op)
    /\ IF ~Validates(op)
         THEN /\ rret' = Throw("ValidationException")
              /\ rpc' = "done"
         ELSE /\ rret' = NoRet
              /\ rpc' = "awaitMutation"
    /\ fetches' = 0
    /\ servedFrom' = "none"
    /\ UNCHANGED <<cacheTTL, cache, cacheTimestamp, now, remote, nextId, httpVars>>

\* The awaited mutating request settles with reply; the operation runs on to its return,
\* to its throw, or to the await of the GET request of its follow-up findAll().
MutationSettles(reply) ==
    /\ rpc = "awaitMutation"
    /\ reply.applied => Applicable(rop)
    /\ remote' = IF reply.applied THEN RemoteAfter(rop) ELSE remote
    /\ nextId' = IF reply.applied /\ rop.kind = "create" THEN nextId + 1 ELSE nextId
    /\ IF reply.kind = "raised"
         THEN /\ mutReply' = "raised"
              /\ rret' = Throw(reply.error)
              /\ rpc' = "done"
              /\ UNCHANGED <<cache, cacheTimestamp, fetches, servedFrom>>
         ELSE LET entry == invalidateCache[1]
                  timestamp == invalidateCache[2]
                  answered == reply.success /\ reply.hasData
                  \* the follow-up: findAll(true) in create, findById(id) in the others
                  force == rop.kind = "create"
                  cached == ~force /\ CacheValid(entry, timestamp, now)
              IN
              /\ mutReply' = IF reply.success THEN "2xx" ELSE "non-2xx"
              /\ cache' = entry
              /\ cacheTimestamp' = timestamp
              /\ IF rop.kind = "create" /\ ~reply.success
                   THEN /\ rret' = Throw("Error: Failed to create client")
                        /\ rpc' = "done"
                        /\ UNCHANGED <<fetches, servedFrom>>
                   ELSE IF rop.kind = "delete"
                   THEN /\ rret' = RetVoid
                        /\ rpc' = "done"
                        /\ UNCHANGED <<fetches, servedFrom>>
                   ELSE IF rop.kind # "create" /\ answered
                   THEN /\ rret' = RetClient(CollectionGet(remote', rop.id))
                        /\ rpc' = "done"
                        /\ UNCHANGED <<fetches, servedFrom>>
                   ELSE IF cached
                   THEN /\ rret' = ResultFrom(rop, entry.clients)
                        /\ rpc' = "done"
                        /\ servedFrom' = "cache"
                        /\ UNCHANGED fetches
                   ELSE /\ rret' = NoRet
                        /\ rpc' = "awaitFetch"
                        /\ fetches' = fetches + 1
                        /\ servedFrom' = "pending"
    /\ UNCHANGED <<cacheTTL, now, rop, prevDeleted, httpVars>>

\* The awaited GET /api/wireguard/client settles with reply: findAll() stores and
\* returns the fetched collection, or returns an empty one, or the error propagates; the
\* operation that called findAll() finishes.
FetchSettlesRepo(reply) ==
    /\ rpc = "awaitFetch"
    /\ rpc' = "done"
    /\ IF reply.kind = "raised"
         THEN /\ rret' = Throw(reply.error)
              /\ servedFrom' = "raised"
              /\ UNCHANGED <<cache, cacheTimestamp>>
         ELSE IF reply.success /\ reply.hasData
         THEN LET coll == FromRawData(remote) IN
              /\ cache' = CacheOf(coll)
              /\ cacheTimestamp' = now
              /\ rret' = ResultFrom(rop, coll)
              /\ servedFrom' = "fetch"
         ELSE /\ rret' = ResultFrom(rop, EmptyCollection)
              /\ servedFrom' = "fallback"
              /\ UNCHANGED <<cache, cacheTimestamp>>
    /\ UNCHANGED <<cacheTTL, now, remote, nextId, rop, prevDeleted, mutReply, fetches,
                   httpVars>>

\* Time passes.
Tick ==
    /\ now < MaxTime
    /\ now' = now + 1
    /\ UNCHANGED <<cacheTTL, cache, cacheTimestamp, remote, nextId, rpc, rop, rret,
                   prevDeleted, mutReply, fetches, servedFrom, httpVars>>

\* The calls the caller makes. Id 0, "bad name" and "nope" fail validation.
ReadOps ==
    {Op("findAll", 0, "", "", f) : f \in BOOLEAN}
    \cup {Op("findById", id, "", "", FALSE) : id \in 0..MaxClients}
    \cup {Op("findByName", 0, n, "", FALSE) : n \in QueryNames}
MutationOps ==
    {Op("create", 0, n, "", FALSE) : n \in Names \cup {"bad name"}}
    \cup {Op("delete", id, "", "", FALSE) : id \in 0..MaxClients}
    \cup {Op(k, id, "", "", FALSE) : k \in {"enable", "disable"}, id \in 1..MaxClients}
    \cup {Op("updateName", id, n, "", FALSE) : id \in 1..MaxClients, n \in Names}
    \cup {Op("updateAddress", id, "", a, FALSE) : id \in 1..MaxClients, a \in Addresses}
    \cup {Op("updateAddress", 1, "", "nope", FALSE)}

RepoNext ==
    \/ (\E op \in ReadOps : CallRead(op)) /\ UNCHANGED <<authVars, svcVars, libVars>>
    \/ (\E op \in MutationOps : CallMutation(op)) /\ UNCHANGED <<authVars, svcVars, libVars>>
    \/ (\E reply \in MutationReplies : MutationSettles(reply)) /\ UNCHANGED <<authVars, svcVars, libVars>>
    \/ (\E reply \in FetchReplies : FetchSettlesRepo(reply)) /\ UNCHANGED <<authVars, svcVars, libVars>>
    \/ Tick /\ UNCHANGED <<authVars, svcVars, libVars>>

SpecRepo == RepoInit /\ [][RepoNext]_vars

(***************************************************************************)
(* AuthService and ClientService over the repository, one caller           *)
(***************************************************************************)

\* The bound of the clock while the services run.
MaxSessionTime == 2

\* The variables of the transport other than the cookie jar.
transportVars == <<retryAttempts, retryDelay, timeout, hpc, attempt, lastError, hresult,
                   sent, delays, lastReply, cookieHeader, lastSetCookie>>

\* The statuses that answer a /api/session request; 0 stands for no response at all (the
\* network failed on every attempt).
AuthStatuses == {200, 401, 403, 500, 0}
AuthSetCookies == {NoHeader, <<"sid", "=", "b", ";", " ", "Path", "=", "/">>}

\* What HttpClient.request gives its caller when every attempt is answered with status:
\* 401 raises UnauthorizedException, 429 RateLimitException, a 5xx or no response ends
\* in NetworkException, any other status is returned with success = response.ok.
RequestOutcome(status, hasData) ==
    CASE status = 401 -> ApiError("UnauthorizedException")
      [] status = 429 -> ApiError("RateLimitException")
      [] status >= 500 \/ status = 0 -> ApiError("NetworkException")
      [] OTHER -> ApiResponse(ResponseOk(status), hasData, FALSE)

\* Session.isExpired()
IsExpired(s, t) == s.expiresAt # NoExpiry /\ t > s.expiresAt
\* The Session after a read of its authenticated getter, which clears _authenticated
\* once the expiry instant has passed.
AfterGetter(s, t) ==
    IF s.present /\ s.expiresAt # NoExpiry /\ t > s.expiresAt
    THEN [s EXCEPT !.authenticated = FALSE] ELSE s
\* this.session && this.session.authenticated && !this.session.isExpired()
SessionLive_IgnoreExpiry(s, t) == s.present /\ s.authenticated
SessionLive_Never(s, t) == FALSE
SessionLive(s, t) == s.present /\ AfterGetter(s, t).authenticated /\ ~IsExpired(s, t)

\* The bookkeeping common to every call the caller makes.
AuthCalled ==
    /\ prevLoggedOut' = (aop = "logout" /\ apc = "done" /\ aret.kind = "returned")
    /\ lastStatus' = 0
    /\ events' = <<>>

\* if (this.password) / if (!passwordToUse)
HasPassword_Always(p) == TRUE
HasPassword(p) == p # Undefined

\* ensureAuthenticated() up to its first await: getSession() answers from the live
\* session, or sends the probe GET /api/session.
EnsureStart ==
    /\ aop' = "ensureAuthenticated"
    /\ session' = AfterGetter(session, now)
    /\ IF SessionLive(session, now)
         THEN /\ apc' = "done"
              /\ aret' = AuthReturned
              /\ authReqs' = <<>>
         ELSE /\ apc' = "awaitProbe"
              /\ aret' = NoAuthRet
              /\ authReqs' = <<"probe">>
    /\ AuthCalled
    /\ UNCHANGED password

\* login() up to its first await: the POST /api/session, or the throw for a missing
\* password.
LoginStart ==
    /\ aop' = "login"
    /\ IF ~HasPassword(password)
         THEN /\ apc' = "done"
              /\ aret' = AuthenticationException("Password is required")
              /\ authReqs' = <<>>
         ELSE /\ apc' = "awaitLogin"
              /\ aret' = NoAuthRet
              /\ authReqs' = <<"login">>
    /\ AuthCalled
    /\ UNCHANGED <<password, session>>

\* logout() up to its first await: the DELETE /api/session.
LogoutStart ==
    /\ aop' = "logout"
    /\ apc' = "awaitRevoke"
    /\ aret' = NoAuthRet
    /\ authReqs' = <<"revoke">>
    /\ AuthCalled
    /\ UNCHANGED <<password, session>>

\* The caller calls ensureAuthenticated(), login() or logout() itself.
AuthCall(kind) ==
    /\ apc \in {"idle", "done"}
    /\ spc \in {"idle", "done"}
    /\ CASE kind = "ensureAuthenticated" -> EnsureStart
         [] kind = "login" -> LoginStart
         [] kind = "logout" -> LogoutStart
    /\ UNCHANGED <<httpVars, repoVars, svcVars, libVars>>

\* The caller calls setAuthenticated(authenticated, expiresIn) on the Session that
\* getSessionInfo() gave it.
SetAuthenticated(authenticated, expiresIn) ==
    /\ apc \in {"idle", "done"}
    /\ spc \in {"idle", "done"}
    /\ session.present
    /\ session' = [present |-> TRUE, authenticated |-> authenticated,
                   expiresAt |-> IF authenticated /\ expiresIn # 0
                                   THEN now + expiresIn ELSE NoExpiry]
    /\ UNCHANGED <<password, apc, aop, aret, authReqs, lastStatus, events, prevLoggedOut, httpVars,
                   repoVars, svcVars, libVars>>

\* The probe settles: getSession() stores the Session the answer describes, and
\* ensureAuthenticated() returns, sends the login request, or throws.
ProbeSettles(status, hasData, dataAuthenticated, setCookie) ==
    /\ apc = "awaitProbe"
    /\ status = 0 => setCookie = NoHeader
    /\ dataAuthenticated => (hasData /\ ResponseOk(status))
    /\ lastStatus' = status
    /\ cookies' = ParseCookies(cookies, setCookie)
    /\ LET response == RequestOutcome(status, hasData)
           fresh == IF response.success /\ response.hasData
                      THEN NewSession(dataAuthenticated) ELSE NewSession(FALSE)
       IN IF response.kind = "raised"
            THEN /\ apc' = "done"
                 /\ aret' = AuthRaised(response.error, "")
                 /\ UNCHANGED <<session, authReqs>>
            ELSE /\ session' = fresh
                 /\ IF fresh.authenticated
                      THEN /\ apc' = "done"
                           /\ aret' = AuthReturned
                           /\ UNCHANGED authReqs
                      ELSE IF HasPassword(password)
                      THEN /\ apc' = "awaitLogin"
                           /\ aret' = NoAuthRet
                           /\ authReqs' = Append(authReqs, "login")
                      ELSE /\ apc' = "done"
                           /\ aret' = AuthenticationException(
                                         "Not authenticated and no password provided")
                           /\ UNCHANGED authReqs
    /\ UNCHANGED <<password, aop, events, prevLoggedOut, transportVars, repoVars, svcVars, libVars>>

\* The login request settles: login() stores an authenticated Session and emits
\* auth:login, or throws.
LoginSettles(status, hasData, setCookie) ==
    /\ apc = "awaitLogin"
    /\ status = 0 => setCookie = NoHeader
    /\ lastStatus' = status
    /\ cookies' = ParseCookies(cookies, setCookie)
    /\ apc' = "done"
    /\ LET response == RequestOutcome(status, hasData) IN
       IF response.kind = "raised"
         THEN /\ aret' = AuthRaised(response.error, "")
              /\ UNCHANGED <<session, events>>
         ELSE IF response.success
         THEN /\ session' = NewSession(TRUE)
              /\ events' = Append(events, "auth:login")
              /\ aret' = AuthReturned
         ELSE /\ aret' = AuthenticationException("Invalid password")
              /\ UNCHANGED <<session, events>>
    /\ UNCHANGED <<password, aop, authReqs, prevLoggedOut, transportVars, repoVars, svcVars, libVars>>

\* The revoke request settles: logout() clears the cookies and the session and emits
\* auth:logout, or the error of the request leaves it.
RevokeSettles(status, hasData, setCookie) ==
    /\ apc = "awaitRevoke"
    /\ status = 0 => setCookie = NoHeader
    /\ lastStatus' = status
    /\ apc' = "done"
    /\ LET response == RequestOutcome(status, hasData) IN
       IF response.kind = "raised"
         THEN /\ aret' = AuthRaised(response.error, "")
              /\ cookies' = ParseCookies(cookies, setCookie)
              /\ UNCHANGED <<session, events>>
         ELSE /\ cookies' = <<>>
              /\ session' = NoSession
              /\ events' = Append(events, "auth:logout")
              /\ aret' = AuthReturned
    /\ UNCHANGED <<password, aop, authReqs, prevLoggedOut, transportVars, repoVars, svcVars, libVars>>

\* Time passes.
Elapse ==
    /\ now < MaxSessionTime
    /\ now' = now + 1
    /\ UNCHANGED <<cacheTTL, cache, cacheTimestamp, remote, nextId, rpc, rop, rret,
                   prevDeleted, mutReply, fetches, servedFrom, httpVars, authVars, svcVars, libVars>>

\* AuthService as the caller drives it directly, the repository and ClientService at
\* rest.
AuthInit ==
    /\ HttpIdle
    /\ RepoIdle
    /\ password \in {Undefined, "secret"}
    /\ session = NoSession
    /\ apc = "idle"
    /\ aop = "none"
    /\ aret = NoAuthRet
    /\ authReqs = <<>>
    /\ lastStatus = 0
    /\ events = <<>>
    /\ prevLoggedOut = FALSE
    /\ LibIdle
    /\ spc = "idle"
    /\ sop = NoOp
    /\ sret = NoSvcRet
    /\ ensured = FALSE

AuthNext ==
    \/ \E kind \in {"ensureAuthenticated", "login", "logout"} : AuthCall(kind)
    \/ \E a \in BOOLEAN, expiresIn \in 0..1 : SetAuthenticated(a, expiresIn)
    \/ \E status \in AuthStatuses, hasData \in BOOLEAN, dataAuthenticated \in BOOLEAN,
          setCookie \in AuthSetCookies :
          ProbeSettles(status, hasData, dataAuthenticated, setCookie)
    \/ \E status \in AuthStatuses, hasData \in BOOLEAN, setCookie \in AuthSetCookies :
          LoginSettles(status, hasData, setCookie)
    \/ \E status \in AuthStatuses, hasData \in BOOLEAN, setCookie \in AuthSetCookies :
          RevokeSettles(status, hasData, setCookie)
    \/ Elapse

SpecAuth == AuthInit /\ [][AuthNext]_vars

\* The operations of ClientService that the caller calls. Id 0 and "bad name" fail the
\* repository's validation.
ServiceKinds == {"getAll", "getById", "getByName", "create", "delete", "enable", "disable",
                 "rename", "updateAddress", "count", "exists"}
ServiceOps ==
    {Op("getAll", 0, "", "", FALSE), Op("count", 0, "", "", FALSE)}
    \cup {Op(k, id, "", "", FALSE) : k \in {"getById", "exists", "delete"}, id \in 0..1}
    \cup {Op(k, 1, "", "", FALSE) : k \in {"enable", "disable"}}
    \cup {Op("getByName", 0, "Dev", "", FALSE)}
    \cup {Op("create", 0, n, "", FALSE) : n \in {"dev", "bad name"}}
    \cup {Op("rename", 1, "Dev", "", FALSE), Op("updateAddress", 1, "", "10.8.0.2", FALSE)}

\* The operations that start with await this.ensureAuth(); count and exists do not.
EnsuresAuth(op) == op.kind \notin {"count", "exists"}

\* The repository operation a ClientService operation calls first.
RepoOpOf(op) ==
    CASE op.kind \in {"getAll", "count"} -> Op("findAll", 0, "", "", FALSE)
      [] op.kind \in {"getById", "exists", "delete"} -> Op("findById", op.id, "", "", FALSE)
      [] op.kind = "getByName" -> Op("findByName", 0, op.name, "", FALSE)
      [] op.kind = "rename" -> Op("updateName", op.id, op.name, "", FALSE)
      [] OTHER -> op

\* The call this.repository.<operation>(...), up to the first await of the repository.
RepoCall(op) == IF op.kind \in ReadKinds THEN CallRead(op) ELSE CallMutation(op)

\* The event a ClientService operation emits after its repository call returned.
NoEvent == "none"
EventOf(op) ==
    CASE op.kind = "create" -> "client:created"
      [] op.kind = "delete" -> "client:deleted"
      [] op.kind = "enable" -> "client:enabled"
      [] op.kind = "disable" -> "client:disabled"
      [] op.kind \in {"rename", "updateAddress"} -> "client:updated"
      [] OTHER -> NoEvent

\* What ClientRepository.exists and ClientRepository.count make of the outcome of the
\* findById / findAll they await; the other operations hand it over as it is.
Swallows(op) == op.kind = "exists"
Outcome(op, ret) ==
    CASE op.kind = "exists" ->
            IF ret.kind = "raised" /\ Swallows(op) THEN SvcRet(RetVoid, "false", -1)
            ELSE IF ret.kind = "raised" THEN SvcRet(ret, "none", -1)
            ELSE SvcRet(RetVoid, "true", -1)
      [] op.kind = "count" ->
            IF ret.kind = "raised" THEN SvcRet(ret, "none", -1)
            ELSE SvcRet(RetVoid, "none", Len(ret.clients))
      [] OTHER -> SvcRet(ret, "none", -1)

\* The caller calls a ClientService operation: it runs up to its first await, which is
\* ensureAuth() or, in count and exists, the repository call.
SvcStart(op) ==
    /\ spc \in {"idle", "done"}
    /\ apc \in {"idle", "done"}
    /\ rpc \in {"idle", "done"}
    /\ sop' = op
    /\ sret' = NoSvcRet
    /\ ensured' = FALSE
    /\ IF EnsuresAuth(op)
         THEN /\ EnsureStart
              /\ spc' = "awaitAuth"
              /\ UNCHANGED <<httpVars, repoVars>>
         ELSE /\ RepoCall(RepoOpOf(op))
              /\ spc' = "awaitRepo"
              /\ authReqs' = <<>>
              /\ AuthCalled
              /\ UNCHANGED <<password, session, apc, aop, aret>>
SvcCall(op) == SvcStart(op) /\ UNCHANGED libVars

\* ensureAuth() settled: its error leaves the operation, or the operation calls the
\* repository.
SvcAuthResolved ==
    /\ spc = "awaitAuth"
    /\ apc = "done"
    /\ IF aret.kind = "raised"
         THEN /\ spc' = "done"
              /\ sret' = SvcRet(Throw(aret.error), "none", -1)
              /\ UNCHANGED <<ensured, httpVars, repoVars>>
         ELSE /\ ensured' = TRUE
              /\ RepoCall(RepoOpOf(sop))
              /\ spc' = "awaitRepo"
              /\ UNCHANGED sret
    /\ UNCHANGED <<authVars, sop, libVars>>

\* The emit() of an operation stands after its awaited repository call: it is reached
\* when that call returned, and skipped when the call threw.
Emits_AlsoRaised(op, ret) == EventOf(op) # NoEvent
Emits(op, ret) == ret.kind = "returned" /\ EventOf(op) # NoEvent

\* The awaited repository call settled: its error leaves the operation; delete goes on
\* to repository.delete(id); the others emit their event and return.
SvcRepoResolved ==
    /\ spc = "awaitRepo"
    /\ rpc = "done"
    /\ IF sop.kind = "delete" /\ rret.kind = "returned"
         THEN /\ CallMutation(sop)
              /\ spc' = "awaitDelete"
              /\ sret' = SvcRet(rret, "none", -1)
              /\ UNCHANGED events
         ELSE /\ spc' = "done"
              /\ sret' = Outcome(sop, rret)
              /\ events' = IF Emits(sop, rret)
                             THEN Append(events, EventOf(sop)) ELSE events
              /\ UNCHANGED <<httpVars, repoVars>>
    /\ UNCHANGED <<password, session, apc, aop, aret, authReqs, lastStatus, prevLoggedOut,
                   sop, ensured, libVars>>

\* repository.delete(id) settled: its error leaves the operation, or client:deleted is
\* emitted.
SvcDeleteResolved ==
    /\ spc = "awaitDelete"
    /\ rpc = "done"
    /\ spc' = "done"
    /\ IF rret.kind = "raised"
         THEN /\ sret' = SvcRet(rret, "none", -1)
              /\ UNCHANGED events
         ELSE /\ sret' = SvcRet(RetVoid, "none", -1)
              /\ events' = Append(events, EventOf(sop))
    /\ UNCHANGED <<password, session, apc, aop, aret, authReqs, lastStatus, prevLoggedOut,
                   sop, ensured, httpVars, repoVars, libVars>>

SvcInit ==
    /\ HttpIdle
    /\ cacheTTL = 1
    /\ cache = NoCache
    /\ cacheTimestamp = NoTimestamp
    /\ now = 0
    /\ remote = <<ClientRec(1, "dev", TRUE, "10.8.0.2")>>
    /\ nextId = 2
    /\ rpc = "idle"
    /\ rop = NoOp
    /\ rret = NoRet
    /\ prevDeleted = 0
    /\ mutReply = "none"
    /\ fetches = 0
    /\ servedFrom = "none"
    /\ password \in {Undefined, "secret"}
    /\ session = NoSession
    /\ apc = "idle"
    /\ aop = "none"
    /\ aret = NoAuthRet
    /\ authReqs = <<>>
    /\ lastStatus = 0
    /\ events = <<>>
    /\ prevLoggedOut = FALSE
    /\ LibIdle
    /\ spc = "idle"
    /\ sop = NoOp
    /\ sret = NoSvcRet
    /\ ensured = FALSE

SvcNext ==
    \/ \E op \in ServiceOps : SvcCall(op)
    \/ SvcAuthResolved
    \/ SvcRepoResolved
    \/ SvcDeleteResolved
    \/ \E status \in AuthStatuses, hasData \in BOOLEAN, dataAuthenticated \in BOOLEAN,
          setCookie \in AuthSetCookies :
          ProbeSettles(status, hasData, dataAuthenticated, setCookie)
    \/ \E status \in AuthStatuses, hasData \in BOOLEAN, setCookie \in AuthSetCookies :
          LoginSettles(status, hasData, setCookie)
    \/ (\E reply \in MutationReplies : MutationSettles(reply)) /\ UNCHANGED <<authVars, svcVars, libVars>>
    \/ (\E reply \in FetchReplies : FetchSettlesRepo(reply)) /\ UNCHANGED <<authVars, svcVars, libVars>>

SpecService == SvcInit /\ [][SvcNext]_vars

(***************************************************************************)
(* EventEmitter                                                            *)
(***************************************************************************)

MaxHandlers == 4
MaxWrappers == 1
MaxEntries == 2
MaxDepth == 2

\* The variables of the transport, the repository and the services.
progVars == <<httpVars, repoVars, authVars, svcVars, collVars, clientVars, flowVars>>

\* The handler functions the caller has at hand, and what each does when it is invoked:
\* handler 1 throws, handler 2 calls emit() for the event type it was invoked for (unless
\* MaxDepth calls of emit() are running), handler 3 registers handler 4 for that event
\* type, the others do nothing. Only handler 4 is registered for auth:login.
HandlerIds == 1..MaxHandlers
HandlersFor(event) == IF event = "client:created" THEN HandlerIds ELSE {4}
Does(id) ==
    CASE id = 1 -> "throws"
      [] id = 2 -> "emits"
      [] id = 3 -> "adds"
      [] OTHER -> "nothing"

\* An entry of a Set of handlers: the function itself (wrapper 0), or the wrapper that
\* once() built around it; live is FALSE once the entry was deleted.
Entry(id, wrapper) == [id |-> id, wrapper |-> wrapper, live |-> TRUE]
IsLive(e) == e.live
Compact(entries) == SelectSeq(entries, IsLive)
Handler(e) == [id |-> e.id, wrapper |-> e.wrapper]
LiveSet(entries) == {Handler(entries[i]) : i \in {j \in DOMAIN entries : entries[j].live}}

\* Set.prototype.add: a value the Set holds is not added again.
SetAdd(entries, id, wrapper) ==
    IF Handler(Entry(id, wrapper)) \in LiveSet(entries) THEN entries
    ELSE Append(entries, Entry(id, wrapper))

\* Set.prototype.delete
SetDelete(entries, id, wrapper) ==
    [i \in DOMAIN entries |->
        IF entries[i].id = id /\ entries[i].wrapper = wrapper
        THEN [entries[i] EXCEPT !.live = FALSE] ELSE entries[i]]

\* Set.prototype.forEach: the position of the next entry it visits from position pos on,
\* holes skipped, entries appended meanwhile included; 0 when there is none.
NextLive(entries, pos) ==
    LET is == {i \in DOMAIN entries : i >= pos /\ entries[i].live}
    IN IF is = {} THEN 0 ELSE CHOOSE i \in is : \A j \in is : i <= j

\* try { handler(data) } catch (error) { console.error(...) }
Caught_Never(thrown) == FALSE
Caught(thrown) == TRUE

\* onceHandler begins with this.off(event, onceHandler).
WrapperRemoves_Never(e) == FALSE
WrapperRemoves(e) == e.wrapper # 0

\* on(event, handler), called by the caller while no emit() runs.
On(event, id) ==
    /\ frames = <<>>
    /\ Len(Compact(handlers[event])) < MaxEntries
    /\ handlers' = [handlers EXCEPT ![event] = SetAdd(Compact(@), id, 0)]
    /\ UNCHANGED <<frames, invoked, atStart, eresult, wrapperCalls, nextWrapper, progVars>>

\* once(event, handler), called by the caller while no emit() runs.
Once(event, id) ==
    /\ frames = <<>>
    /\ Len(Compact(handlers[event])) < MaxEntries
    /\ nextWrapper <= MaxWrappers
    /\ handlers' = [handlers EXCEPT ![event] = SetAdd(Compact(@), id, nextWrapper)]
    /\ wrapperCalls' = Append(wrapperCalls, 0)
    /\ nextWrapper' = nextWrapper + 1
    /\ UNCHANGED <<frames, invoked, atStart, eresult, progVars>>

\* off(event, handler), called by the caller while no emit() runs.
Off(event, id) ==
    /\ frames = <<>>
    /\ handlers' = [handlers EXCEPT ![event] = Compact(SetDelete(@, id, 0))]
    /\ UNCHANGED <<frames, invoked, atStart, eresult, wrapperCalls, nextWrapper, progVars>>

\* emit(event, data), called by the caller: forEach starts.
Emit(event) ==
    /\ frames = <<>>
    /\ frames' = <<[event |-> event, pos |-> 1]>>
    /\ invoked' = <<>>
    /\ atStart' = LiveSet(handlers[event])
    /\ eresult' = "none"
    /\ UNCHANGED <<handlers, wrapperCalls, nextWrapper, progVars>>

\* forEach of the innermost emit() in progress invokes the next handler, which runs to
\* its end or to its own call of emit().
Invoke ==
    /\ frames # <<>>
    /\ LET top == Len(frames)
           event == frames[top].event
           entries == handlers[event]
           i == NextLive(entries, frames[top].pos)
       IN
       /\ i # 0
       /\ LET e == entries[i]
              afterOff == IF WrapperRemoves(e) THEN SetDelete(entries, e.id, e.wrapper)
                          ELSE entries
              afterBody == IF Does(e.id) = "adds" /\ e.id < MaxHandlers
                           THEN SetAdd(afterOff, e.id + 1, 0) ELSE afterOff
              thrown == Does(e.id) = "throws"
              reenters == Does(e.id) = "emits" /\ top < MaxDepth
              advanced == [frames EXCEPT ![top].pos = i + 1]
          IN
          /\ invoked' = Append(invoked, [id |-> e.id, wrapper |-> e.wrapper,
                                         event |-> event, depth |-> top])
          /\ wrapperCalls' = IF e.wrapper # 0
                               THEN [wrapperCalls EXCEPT ![e.wrapper] = @ + 1]
                               ELSE wrapperCalls
          /\ handlers' = [handlers EXCEPT ![event] = afterBody]
          /\ IF thrown /\ ~Caught(thrown)
               THEN /\ frames' = <<>>
                    /\ eresult' = "raised"
               ELSE IF reenters
               THEN /\ frames' = Append(advanced, [event |-> event, pos |-> 1])
                    /\ UNCHANGED eresult
               ELSE /\ frames' = advanced
                    /\ UNCHANGED eresult
    /\ UNCHANGED <<atStart, nextWrapper, progVars>>

\* forEach of the innermost emit() in progress has no entry left: that emit() returns.
EmitReturns ==
    /\ frames # <<>>
    /\ LET top == Len(frames) IN
       /\ NextLive(handlers[frames[top].event], frames[top].pos) = 0
       /\ frames' = SubSeq(frames, 1, top - 1)
       /\ eresult' = IF top = 1 THEN "returned" ELSE eresult
    /\ UNCHANGED <<handlers, invoked, atStart, wrapperCalls, nextWrapper, progVars>>

EmitterInit ==
    /\ HttpIdle
    /\ RepoIdle
    /\ ServiceIdle

EmitterNext ==
    \/ (\E event \in EventTypes : \E id \in HandlersFor(event) : On(event, id))
          /\ UNCHANGED revoked
    \/ (\E event \in EventTypes : \E id \in HandlersFor(event) : Once(event, id))
          /\ UNCHANGED revoked
    \/ (\E event \in EventTypes : \E id \in HandlersFor(event) : Off(event, id))
          /\ UNCHANGED revoked
    \/ (\E event \in EventTypes : Emit(event)) /\ UNCHANGED revoked
    \/ Invoke /\ UNCHANGED revoked
    \/ EmitReturns /\ UNCHANGED revoked

SpecEmitter == EmitterInit /\ [][EmitterNext]_vars

\* The wrappers that once(event, handler) built around handler id and that the Set of
\* event still holds: the registrations an off(event, handler) is meant to undo.
WrappersOf(event, id) ==
    {handlers[event][i].wrapper :
        i \in {j \in DOMAIN handlers[event] :
                 /\ handlers[event][j].live
                 /\ handlers[event][j].id = id
                 /\ handlers[event][j].wrapper # 0}}

\* off(event, handler), with the once() registrations of handler that it was called
\* against recorded in revoked.
OffRecorded(event, id) ==
    /\ Off(event, id)
    /\ revoked' = revoked \cup WrappersOf(event, id)

OnceOffNext ==
    \/ (\E event \in EventTypes : \E id \in HandlersFor(event) : On(event, id))
          /\ UNCHANGED revoked
    \/ (\E event \in EventTypes : \E id \in HandlersFor(event) : Once(event, id))
          /\ UNCHANGED revoked
    \/ \E event \in EventTypes : \E id \in HandlersFor(event) : OffRecorded(event, id)
    \/ (\E event \in EventTypes : Emit(event)) /\ UNCHANGED revoked
    \/ Invoke /\ UNCHANGED revoked
    \/ EmitReturns /\ UNCHANGED revoked

SpecOnceOff == EmitterInit /\ [][OnceOffNext]_vars

(***************************************************************************)
(* ClientCollection: the operations a caller applies to a collection       *)
(***************************************************************************)

MaxSize == 4
MaxLimit == 2
MaxPage == 4
MaxAdvance == 1

\* Everything but the collection.
nonCollVars == <<httpVars, repoVars, authVars, svcVars, emitterVars, clientVars, flowVars,
                 revoked>>

\* The Map of the collection the caller holds (this.clients), and toArray() of it.
Receiver == 1
ToArray == heap[Receiver]

\* The collections the caller can hold: clients with distinct ids, in any order.
Snapshots ==
    UNION {{q \in [1..n -> 1..MaxSize] : \A i, j \in 1..n : i # j => q[i] # q[j]} :
              n \in 0..MaxSize}
SnapshotOf(q) == [i \in DOMAIN q |-> PoolClient(q[i])]

\* The filters, queries and updates the caller passes.
Filters ==
    {Filter(e, n, m) : e \in {"undefined", "true", "false"},
                       n \in {NoString, <<>>, <<"D", "E">>},
                       m \in {NoMin, 1}}
Queries == {<<"D", "E">>, <<"p">>}
\* The pages the caller asks for: negative ones, 0, and pages past the last.
Pages == (0 - MaxLimit)..MaxPage

\* new Map(this.clients): the heap with the copy in it, and the reference to the copy.
MapCopy_Alias(h, ref) == [heap |-> h, ref |-> ref]
MapCopy(h, ref) == [heap |-> Append(h, h[ref]), ref |-> Len(h) + 1]

\* Map.prototype.set(client.id, client) and Map.prototype.delete(id) on Map ref.
ClientsSet(h, ref, client) ==
    LET i == SelectIndex(h[ref], client.id, 1) IN
    [h EXCEPT ![ref] = IF i = 0 THEN Append(@, client) ELSE [@ EXCEPT ![i] = client]]
ClientsDelete(h, ref, id) ==
    LET IsNot(c) == c.id # id IN [h EXCEPT ![ref] = SelectSeq(@, IsNot)]

\* new ClientCollection(array): the heap with the Map of the new collection last.
NewCollection(h, array) == Append(h, MapOf(array, <<>>))

\* The heap and the result once an operation has returned: the Map of the receiver, and
\* after it the Map of the collection returned when that is another object.
Returns(h, ref, result) ==
    /\ heap' = IF ref \in {0, Receiver} THEN <<h[Receiver]>> ELSE <<h[Receiver], h[ref]>>
    /\ cres' = [result EXCEPT !.ref = IF ref \in {0, Receiver} THEN ref ELSE 2]

\* add(client)
AddResult(h, client) ==
    LET newClients == MapCopy(h, Receiver)
        set == ClientsSet(newClients.heap, newClients.ref, client)
    IN NewCollection(set, set[newClients.ref])
Add(id) ==
    /\ cop.kind # "none"
    /\ cop' = [NoCop EXCEPT !.kind = "add", !.id = id]
    /\ LET h == AddResult(heap, [PoolClient(id) EXCEPT !.enabled = ~@])
       IN Returns(h, Len(h), NoCres)
    /\ UNCHANGED <<held, nonCollVars>>

\* remove(id)
Remove(id) ==
    /\ cop.kind # "none"
    /\ cop' = [NoCop EXCEPT !.kind = "remove", !.id = id]
    /\ LET newClients == MapCopy(heap, Receiver)
           deleted == ClientsDelete(newClients.heap, newClients.ref, id)
           h == NewCollection(deleted, deleted[newClients.ref])
       IN Returns(h, Len(h), NoCres)
    /\ UNCHANGED <<held, nonCollVars>>

\* update(id, {enabled: ...}): this when the collection has no such client, else
\* add(client.clone(updates)).
Update(id) ==
    /\ cop.kind # "none"
    /\ cop' = [NoCop EXCEPT !.kind = "update", !.id = id]
    /\ LET i == SelectIndex(ToArray, id, 1) IN
       IF i = 0 THEN Returns(heap, Receiver, NoCres)
       ELSE LET h == AddResult(heap, [ToArray[i] EXCEPT !.enabled = ~@])
            IN Returns(h, Len(h), NoCres)
    /\ UNCHANGED <<held, nonCollVars>>

\* filterBy(filters)
FilterBy(filters) ==
    /\ cop.kind # "none"
    /\ cop' = [NoCop EXCEPT !.kind = "filterBy", !.filters = <<filters>>]
    /\ LET h == NewCollection(heap, FilterArray(ToArray, filters))
       IN Returns(h, Len(h), NoCres)
    /\ UNCHANGED <<held, nonCollVars>>

\* filterBy(filters) called on the collection that the latest filterBy returned.
FilterByAgain(filters) ==
    /\ cop.kind = "filterBy"
    /\ Len(cop.filters) = 1
    /\ cop' = [cop EXCEPT !.filters = Append(@, filters)]
    /\ LET h == NewCollection(heap, FilterArray(heap[cres.ref], filters))
       IN Returns(h, Len(h), NoCres)
    /\ UNCHANGED <<held, nonCollVars>>

\* search(query)
Search(query) ==
    /\ cop.kind # "none"
    /\ cop' = [NoCop EXCEPT !.kind = "search", !.query = query]
    /\ LET Matches(c) == Includes(Lower(c.name), Lower(query))
           h == NewCollection(heap, SelectSeq(ToArray, Matches))
       IN Returns(h, Len(h), NoCres)
    /\ UNCHANGED <<held, nonCollVars>>

\* sortByTransfer(ascending)
SortByTransfer(ascending) ==
    /\ cop.kind # "none"
    /\ cop' = [NoCop EXCEPT !.kind = "sortByTransfer", !.ascending = ascending]
    /\ LET h == NewCollection(heap, SortArray(ToArray, ascending))
       IN Returns(h, Len(h), NoCres)
    /\ UNCHANGED <<held, nonCollVars>>

\* paginate({page, limit}): the IPaginatedResult.
PaginatedResult(array, page, limit) ==
    LET total == Len(array)
        totalPages == CeilDiv(total, limit)
        offset == (page - 1) * limit
        items == Slice(array, offset, offset + limit)
    IN [NoCres EXCEPT !.items = items, !.total = total, !.totalPages = totalPages,
                      !.hasNext = page < totalPages, !.hasPrev = page > 1]
Paginate(page, limit) ==
    /\ cop.kind # "none"
    /\ cop' = [NoCop EXCEPT !.kind = "paginate", !.page = page, !.limit = limit,
                            !.first = page]
    /\ LET result == PaginatedResult(ToArray, page, limit)
       IN Returns(heap, 0, [result EXCEPT !.seen = result.items])
    /\ UNCHANGED <<held, nonCollVars>>

\* The caller goes on to the next page while the latest result says hasNext.
NextPage ==
    /\ cop.kind = "paginate"
    /\ cres.hasNext
    /\ cop' = [cop EXCEPT !.page = @ + 1]
    /\ LET result == PaginatedResult(ToArray, cop.page + 1, cop.limit)
       IN Returns(heap, 0, [result EXCEPT !.seen = cres.seen \o result.items])
    /\ UNCHANGED <<held, nonCollVars>>

\* getStatistics(): the passes that count the online clients and the offline clients
\* read the clock at t and, d later, at t + d.
Count(array, Test(_)) == Cardinality({i \in DOMAIN array : Test(array[i])})
RECURSIVE SumTransferTx(_)
SumTransferTx(array) ==
    IF array = <<>> THEN 0 ELSE Head(array).transferTx + SumTransferTx(Tail(array))
GetStatistics(t, d) ==
    /\ cop.kind # "none"
    /\ cop' = [NoCop EXCEPT !.kind = "getStatistics", !.t = t, !.d = d]
    /\ LET clients == ToArray
           Enabled(c) == c.enabled
           Disabled(c) == ~c.enabled
           Online(c) == IsOnline(c, t)
           Offline(c) == ~IsOnline(c, t + d)
       IN Returns(heap, 0,
                  [NoCres EXCEPT !.stats =
                      Stats(Len(clients), Count(clients, Enabled),
                            Count(clients, Disabled), Count(clients, Online),
                            Count(clients, Offline), SumTransferTx(clients))])
    /\ UNCHANGED <<held, nonCollVars>>

\* The caller receives a collection.
CollectionInit ==
    /\ HttpIdle
    /\ RepoIdle
    /\ password = Undefined
    /\ session = NoSession
    /\ apc = "idle"
    /\ aop = "none"
    /\ aret = NoAuthRet
    /\ authReqs = <<>>
    /\ lastStatus = 0
    /\ events = <<>>
    /\ prevLoggedOut = FALSE
    /\ spc = "idle"
    /\ sop = NoOp
    /\ sret = NoSvcRet
    /\ ensured = FALSE
    /\ EmitterIdle
    /\ ClientIdle
    /\ FlowIdle
    /\ \E q \in Snapshots : heap = <<SnapshotOf(q)>> /\ held = SnapshotOf(q)
    /\ cop = [NoCop EXCEPT !.kind = "received"]
    /\ cres = NoCres

CollectionNext ==
    \/ \E id \in 1..MaxSize : Add(id)
    \/ \E id \in 1..MaxSize : Remove(id)
    \/ \E id \in 1..MaxSize : Update(id)
    \/ \E filters \in Filters : FilterBy(filters)
    \/ \E filters \in Filters : FilterByAgain(filters)
    \/ \E query \in Queries : Search(query)
    \/ \E ascending \in BOOLEAN : SortByTransfer(ascending)
    \/ \E page \in Pages, limit \in 1..MaxLimit : Paginate(page, limit)
    \/ NextPage
    \/ \E d \in 0..MaxAdvance : GetStatistics(StatisticsTime, d)

SpecCollection == CollectionInit /\ [][CollectionNext]_vars

(***************************************************************************)
(* WgEasyClient: initialize() and connect() over AuthService               *)
(***************************************************************************)

\* AuthService.isAuthenticated(): this.session?.authenticated ?? false
IsAuthenticated(s, t) == s.present /\ AfterGetter(s, t).authenticated

\* if (this.initialized) return;
AlreadyInitialized_Never == FALSE
AlreadyInitialized == initialized

\* initialize() up to its first await: it returns at once when the client is
\* initialized, else it calls ensureAuthenticated().
InitializeStart(op) ==
    IF AlreadyInitialized
    THEN /\ wcall' = [op |-> op, pc |-> "done", ret |-> "resolved"]
         /\ UNCHANGED <<authVars, initialized>>
    ELSE /\ EnsureStart
         /\ wcall' = [op |-> op, pc |-> "awaitEnsure", ret |-> "none"]
         /\ UNCHANGED initialized

\* The caller calls initialize() on a client it holds.
Initialize ==
    /\ wcall.pc # "awaitEnsure"
    /\ apc \in {"idle", "done"}
    /\ InitializeStart("initialize")
    /\ UNCHANGED <<httpVars, repoVars, svcVars, emitterVars, collVars, flowVars, revoked>>

\* WgEasyClient.connect(options): a new client, and initialize() on it.
Connect ==
    /\ wcall = NoCall
    /\ aop = "none"
    /\ InitializeStart("connect")
    /\ UNCHANGED <<httpVars, repoVars, svcVars, emitterVars, collVars, flowVars, revoked>>

\* ensureAuthenticated() has settled: initialize() sets initialized and returns, or the
\* error leaves it; connect() returns the client or rejects alike.
InitializeResumes ==
    /\ wcall.pc = "awaitEnsure"
    /\ apc = "done"
    /\ IF aret.kind = "returned"
         THEN /\ initialized' = TRUE
              /\ wcall' = [wcall EXCEPT !.pc = "done", !.ret = "resolved"]
         ELSE /\ wcall' = [wcall EXCEPT !.pc = "done", !.ret = "rejected"]
              /\ UNCHANGED initialized
    /\ UNCHANGED <<httpVars, repoVars, authVars, svcVars, emitterVars, collVars, flowVars,
                   revoked>>

\* A WgEasyClient just constructed, or about to be by connect().
ClientInit == AuthInit

\* The caller of a client: it calls login(), logout() and setAuthenticated() only on a
\* client it holds, with no initialize() of its own in flight.
ClientNext ==
    \/ Connect
    \/ Initialize
    \/ InitializeResumes
    \/ /\ wcall.pc # "awaitEnsure"
       /\ \E kind \in {"login", "logout"} : AuthCall(kind)
    \/ /\ wcall.pc # "awaitEnsure"
       /\ \E a \in BOOLEAN, expiresIn \in 0..1 : SetAuthenticated(a, expiresIn)
    \/ \E status \in AuthStatuses, hasData \in BOOLEAN, dataAuthenticated \in BOOLEAN,
          setCookie \in AuthSetCookies :
          ProbeSettles(status, hasData, dataAuthenticated, setCookie)
    \/ \E status \in AuthStatuses, hasData \in BOOLEAN, setCookie \in AuthSetCookies :
          LoginSettles(status, hasData, setCookie)
    \/ \E status \in AuthStatuses, hasData \in BOOLEAN, setCookie \in AuthSetCookies :
          RevokeSettles(status, hasData, setCookie)
    \/ Elapse

SpecClient == ClientInit /\ [][ClientNext]_vars

(***************************************************************************)
(* ClientService: the bulk operations                                      *)
(***************************************************************************)

\* The longest list handed to a bulk operation.
MaxBulk == 2

\* The single-item operation that a bulk operation awaits for each item of its list.
BulkKinds == {"bulkCreate", "bulkDelete", "bulkEnable", "bulkDisable"}
ItemKind(kind) ==
    CASE kind = "bulkCreate" -> "create"
      [] kind = "bulkDelete" -> "delete"
      [] kind = "bulkEnable" -> "enable"
      [] kind = "bulkDisable" -> "disable"
\* The items of the lists: "bad name" and id 0 fail validation.
ItemOps(kind) ==
    IF kind = "bulkCreate"
    THEN {Op("create", 0, n, "", FALSE) : n \in {"dev", "bad name"}}
    ELSE {Op(ItemKind(kind), id, "", "", FALSE) : id \in 0..1}
BulkLists(kind) == UNION {[1..n -> ItemOps(kind)] : n \in 0..MaxBulk}

\* The loop of a bulk operation leaves with the error of an item that raised.
Aborts_Never(ret) == FALSE
Aborts(ret) == ret.kind = "raised"

\* bulkCreate(names), bulkDelete(ids), bulkEnable(ids), bulkDisable(ids) up to the
\* first await: the single-item operation on the first item, or the return for an
\* empty list. snap is the remote list when the operation on the latest item started,
\* failed the first item whose operation raised.
BulkCall(kind, items) ==
    /\ bulk.pc \in {"idle", "done"}
    /\ spc \in {"idle", "done"}
    /\ IF items = <<>>
         THEN /\ bulk' = [NoBulk EXCEPT !.kind = kind, !.pc = "done", !.ret = "returned",
                                        !.snap = remote]
              /\ UNCHANGED <<httpVars, repoVars, authVars, svcVars>>
         ELSE /\ SvcStart(items[1])
              /\ bulk' = [NoBulk EXCEPT !.kind = kind, !.items = items, !.k = 1,
                                        !.pc = "running", !.called = <<items[1]>>,
                                        !.snap = remote]
    /\ UNCHANGED <<emitterVars, collVars, clientVars, overlap, callers, revoked>>

\* The awaited single-item operation settled: its error leaves the bulk operation, or
\* the loop goes on to the next item, or the bulk operation returns.
BulkItemResolved ==
    /\ bulk.pc = "running"
    /\ spc = "done"
    /\ LET seen == [bulk EXCEPT !.emitted = @ \o events,
                                !.failed = IF @ = 0 /\ sret.ret.kind = "raised"
                                             THEN bulk.k ELSE @]
       IN IF Aborts(sret.ret)
            THEN /\ bulk' = [seen EXCEPT !.pc = "done", !.ret = "raised",
                                         !.error = sret.ret.error]
                 /\ UNCHANGED <<httpVars, repoVars, authVars, svcVars>>
            ELSE IF bulk.k < Len(bulk.items)
            THEN /\ SvcStart(bulk.items[bulk.k + 1])
                 /\ bulk' = [seen EXCEPT !.k = @ + 1,
                                         !.called = Append(@, bulk.items[bulk.k + 1]),
                                         !.snap = remote]
            ELSE /\ bulk' = [seen EXCEPT !.pc = "done", !.ret = "returned"]
                 /\ UNCHANGED <<httpVars, repoVars, authVars, svcVars>>
    /\ UNCHANGED <<emitterVars, collVars, clientVars, overlap, callers, revoked>>

BulkInit == SvcInit

\* The caller calls bulk operations; the operations they await run as in SvcNext.
BulkNext ==
    \/ \E kind \in BulkKinds : \E items \in BulkLists(kind) : BulkCall(kind, items)
    \/ BulkItemResolved
    \/ SvcAuthResolved
    \/ SvcRepoResolved
    \/ SvcDeleteResolved
    \/ \E status \in AuthStatuses, hasData \in BOOLEAN, dataAuthenticated \in BOOLEAN,
          setCookie \in AuthSetCookies :
          ProbeSettles(status, hasData, dataAuthenticated, setCookie)
    \/ \E status \in AuthStatuses, hasData \in BOOLEAN, setCookie \in AuthSetCookies :
          LoginSettles(status, hasData, setCookie)
    \/ (\E reply \in MutationReplies : MutationSettles(reply)) /\ UNCHANGED <<authVars, svcVars, libVars>>
    \/ (\E reply \in FetchReplies : FetchSettlesRepo(reply)) /\ UNCHANGED <<authVars, svcVars, libVars>>

SpecBulk == BulkInit /\ [][BulkNext]_vars

(***************************************************************************)
(* ClientRepository with a second caller whose findAll() overlaps          *)
(***************************************************************************)

\* What the actions of the second caller leave alone.
firstCallerVars == <<httpVars, authVars, svcVars, emitterVars, collVars, clientVars, bulk,
                     callers, revoked>>

\* The second caller calls findAll(): the cached collection, or the GET request.
OverlapCall ==
    /\ overlap.pc \in {"idle", "done"}
    /\ overlap' = [overlap EXCEPT !.pc = IF isCacheValid THEN "done" ELSE "awaitFetch",
                                  !.clients = <<>>, !.outdated = FALSE]
    /\ UNCHANGED <<repoVars, firstCallerVars>>

\* The remote service answers that GET with its list; the response is on its way.
OverlapAnswered ==
    /\ overlap.pc = "awaitFetch"
    /\ overlap' = [overlap EXCEPT !.pc = "answered", !.clients = remote]
    /\ UNCHANGED <<repoVars, firstCallerVars>>

\* The response reaches the second caller's findAll(), which stores the collection and
\* the time (a response with success = false or no data is stored nowhere). stale tells
\* that the cache holds a list that the remote service gave out before the remote call
\* of a mutation that has returned since.
OverlapSettles(success) ==
    /\ overlap.pc = "answered"
    /\ IF success
         THEN /\ cache' = CacheOf(FromRawData(overlap.clients))
              /\ cacheTimestamp' = now
              /\ overlap' = [overlap EXCEPT !.pc = "done", !.stale = overlap.outdated]
         ELSE /\ overlap' = [overlap EXCEPT !.pc = "done"]
              /\ UNCHANGED <<cache, cacheTimestamp>>
    /\ UNCHANGED <<cacheTTL, now, remote, nextId, rpc, rop, rret, prevDeleted, mutReply,
                   fetches, servedFrom, firstCallerVars>>

\* The first caller's delete settles while the second caller's GET is under way.
OverlapMutationSettles(reply) ==
    /\ MutationSettles(reply)
    /\ overlap' = [overlap EXCEPT
                      !.outdated = IF overlap.pc = "answered" /\ reply.kind # "raised"
                                     THEN TRUE ELSE @,
                      !.stale = IF reply.kind # "raised" THEN FALSE ELSE @]
    /\ UNCHANGED <<authVars, svcVars, emitterVars, collVars, clientVars, bulk, callers,
                   revoked>>

\* The first caller's GET settles while the second caller's GET is under way.
OverlapFetchSettles(reply) ==
    /\ FetchSettlesRepo(reply)
    /\ overlap' = [overlap EXCEPT !.stale = IF cache' # cache THEN FALSE ELSE @]
    /\ UNCHANGED <<authVars, svcVars, emitterVars, collVars, clientVars, bulk, callers,
                   revoked>>

\* The calls of the first caller.
OverlapOps == {Op("findAll", 0, "", "", FALSE), Op("delete", 1, "", "", FALSE)}

OverlapInit == RepoInit

OverlapNext ==
    \/ (\E op \in OverlapOps : RepoCall(op)) /\ UNCHANGED <<authVars, svcVars, libVars>>
    \/ \E reply \in MutationReplies : OverlapMutationSettles(reply)
    \/ \E reply \in FetchReplies : OverlapFetchSettles(reply)
    \/ Tick /\ UNCHANGED <<authVars, svcVars, libVars>>
    \/ OverlapCall
    \/ OverlapAnswered
    \/ \E success \in BOOLEAN : OverlapSettles(success)

SpecOverlap == OverlapInit /\ [][OverlapNext]_vars

(***************************************************************************)
(* ClientService and AuthService in the hands of one caller                *)
(***************************************************************************)

\* The caller calls operations of ClientService and, between them, login(), logout()
\* and ensureAuthenticated() of the AuthService that the service shares.
SessionOps ==
    {Op("getAll", 0, "", "", FALSE), Op("delete", 1, "", "", FALSE),
     Op("rename", 1, "Dev", "", FALSE)}

SessionInit == SvcInit

SessionNext ==
    \/ \E op \in SessionOps : SvcCall(op)
    \/ SvcAuthResolved
    \/ SvcRepoResolved
    \/ SvcDeleteResolved
    \/ \E kind \in {"ensureAuthenticated", "login", "logout"} : AuthCall(kind)
    \/ \E status \in AuthStatuses, hasData \in BOOLEAN, dataAuthenticated \in BOOLEAN,
          setCookie \in AuthSetCookies :
          ProbeSettles(status, hasData, dataAuthenticated, setCookie)
    \/ \E status \in AuthStatuses, hasData \in BOOLEAN, setCookie \in AuthSetCookies :
          LoginSettles(status, hasData, setCookie)
    \/ \E status \in AuthStatuses, hasData \in BOOLEAN, setCookie \in AuthSetCookies :
          RevokeSettles(status, hasData, setCookie)
    \/ (\E reply \in MutationReplies : MutationSettles(reply))
           /\ UNCHANGED <<authVars, svcVars, libVars>>
    \/ (\E reply \in FetchReplies : FetchSettlesRepo(reply))
           /\ UNCHANGED <<authVars, svcVars, libVars>>

SpecSession == SessionInit /\ [][SessionNext]_vars

(***************************************************************************)
(* AuthService with concurrent calls of ensureAuthenticated()              *)
(***************************************************************************)

\* The number of operations that call ensureAuthenticated() together.
MaxCallers == 2

\* What the concurrent calls leave alone.
aroundAuthVars == <<repoVars, svcVars, emitterVars, collVars, clientVars, bulk, overlap,
                    revoked>>

\* One more of the operations started together (as by Promise.all) calls
\* ensureAuthenticated(): getSession() answers from the live session or sends the probe.
\* callers[p] is where call p is: awaitProbe, awaitLogin, returned or raised.
ConcurrentEnsure ==
    /\ Len(callers) < MaxCallers
    /\ \A p \in DOMAIN callers : callers[p] \in {"awaitProbe", "awaitLogin"}
    /\ session' = AfterGetter(session, now)
    /\ IF SessionLive(session, now)
         THEN /\ callers' = Append(callers, "returned")
              /\ UNCHANGED authReqs
         ELSE /\ callers' = Append(callers, "awaitProbe")
              /\ authReqs' = Append(authReqs, "probe")
    /\ UNCHANGED <<password, apc, aop, aret, lastStatus, events, prevLoggedOut, httpVars,
                   aroundAuthVars>>

\* The probe of call p settles: getSession() stores the Session the answer describes,
\* and ensureAuthenticated() returns, sends the login request, or throws.
ConcurrentProbeSettles(p, status, hasData, dataAuthenticated, setCookie) ==
    /\ callers[p] = "awaitProbe"
    /\ status = 0 => setCookie = NoHeader
    /\ dataAuthenticated => (hasData /\ ResponseOk(status))
    /\ lastStatus' = status
    /\ cookies' = ParseCookies(cookies, setCookie)
    /\ LET response == RequestOutcome(status, hasData)
           fresh == IF response.success /\ response.hasData
                      THEN NewSession(dataAuthenticated) ELSE NewSession(FALSE)
       IN IF response.kind = "raised"
            THEN /\ callers' = [callers EXCEPT ![p] = "raised"]
                 /\ UNCHANGED <<session, authReqs>>
            ELSE /\ session' = fresh
                 /\ IF fresh.authenticated
                      THEN /\ callers' = [callers EXCEPT ![p] = "returned"]
                           /\ UNCHANGED authReqs
                      ELSE IF HasPassword(password)
                      THEN /\ callers' = [callers EXCEPT ![p] = "awaitLogin"]
                           /\ authReqs' = Append(authReqs, "login")
                      ELSE /\ callers' = [callers EXCEPT ![p] = "raised"]
                           /\ UNCHANGED authReqs
    /\ UNCHANGED <<password, apc, aop, aret, events, prevLoggedOut, transportVars,
                   aroundAuthVars>>

\* The login request of call p settles: login() stores an authenticated Session and
\* emits auth:login, or throws.
ConcurrentLoginSettles(p, status, hasData, setCookie) ==
    /\ callers[p] = "awaitLogin"
    /\ status = 0 => setCookie = NoHeader
    /\ lastStatus' = status
    /\ cookies' = ParseCookies(cookies, setCookie)
    /\ LET response == RequestOutcome(status, hasData) IN
       IF response.kind # "raised" /\ response.success
         THEN /\ session' = NewSession(TRUE)
              /\ events' = Append(events, "auth:login")
              /\ callers' = [callers EXCEPT ![p] = "returned"]
         ELSE /\ callers' = [callers EXCEPT ![p] = "raised"]
              /\ UNCHANGED <<session, events>>
    /\ UNCHANGED <<password, apc, aop, aret, authReqs, prevLoggedOut, transportVars,
                   aroundAuthVars>>

ConcurrentInit == AuthInit

ConcurrentNext ==
    \/ ConcurrentEnsure
    \/ \E p \in DOMAIN callers, status \in AuthStatuses, hasData \in BOOLEAN,
          dataAuthenticated \in BOOLEAN, setCookie \in AuthSetCookies :
          ConcurrentProbeSettles(p, status, hasData, dataAuthenticated, setCookie)
    \/ \E p \in DOMAIN callers, status \in AuthStatuses, hasData \in BOOLEAN,
          setCookie \in AuthSetCookies :
          ConcurrentLoginSettles(p, status, hasData, setCookie)

SpecConcurrent == ConcurrentInit /\ [][ConcurrentNext]_vars

(***************************************************************************)
(* Properties of HttpClient.request, checked under SpecHttp.               *)
(***************************************************************************)

\* The request has ended by raising / by returning (the caller may have taken the
\* answer already: hresult is kept until the next request starts).
HRaised == hresult.kind = "raised"
HReturned == hresult.kind = "returned"
\* The latest fetch() settled with a response of status s.
Got(s) == lastReply.kind = "response" /\ lastReply.status = s
Got5xx == lastReply.kind = "response" /\ lastReply.status >= 500
GotBadJson ==
    /\ lastReply.kind = "response"
    /\ lastReply.status \in {200, 404}
    /\ lastReply.ctype = "application/json"
    /\ lastReply.text = "{bad"
\* 1 + 2 + ... + n
Triangle(n) == (n * (n + 1)) \div 2
RECURSIVE SumSeq(_)
SumSeq(q) == IF q = <<>> THEN 0 ELSE Head(q) + SumSeq(Tail(q))

\* C6 (no-retry law): once a fetch() has settled with a 401 or a 429 the request has
\* raised UnauthorizedException / RateLimitException, no fetch() and no delay() follows
\* that attempt, and a first response of 401 or 429 means exactly one fetch() was made.
C6_NoRetryOn401Or429 ==
    (Got(401) \/ Got(429)) =>
        /\ hpc \in {"raised", "idle"}
        /\ HRaised
        /\ Got(401) => hresult.error.name = "UnauthorizedException"
        /\ Got(429) => hresult.error.name = "RateLimitException"
        /\ sent = attempt
        /\ Len(delays) = sent - 1
        /\ (Len(delays) = 0 => sent = 1)

\* A 429 on the first attempt of a client that had three attempts: one fetch(), raised.
C6_Witness ==
    /\ Got(429)
    /\ hpc = "raised"
    /\ retryAttempts = 3
    /\ sent = 1
    /\ delays = <<>>
    /\ hresult.error.name = "RateLimitException"

\* C7 (retry law): the k-th delay() of a request waits retryDelay * k; a request gives up
\* on a network failure or a 5xx only when retryAttempts attempts were made; and when
\* attempt N+1 gets a response that is not an error the request returns that response's
\* payload and status, having waited retryDelay * (1 + ... + N) in all.
C7_RetryLaw ==
    /\ \A k \in 1..Len(delays) : delays[k] = retryDelay * k
    /\ (HRaised /\ (lastReply.kind = "netfail" \/ Got5xx)) => sent = retryAttempts
    /\ HReturned =>
          /\ sent <= retryAttempts
          /\ Len(delays) = sent - 1
          /\ SumSeq(delays) = retryDelay * Triangle(sent - 1)
          /\ hresult.statusCode = lastReply.status
          /\ hresult.success = (lastReply.status = 200)
          /\ (lastReply.ctype = "application/json" /\ lastReply.text = "j:d1")
                => hresult.data = "d1"
          /\ (lastReply.ctype = "application/json" /\ lastReply.text = "j:d2")
                => hresult.data = "d2"
          /\ lastReply.ctype = "text/plain" => hresult.data = lastReply.text

\* Two failed attempts, then a 200 with a JSON body on the third of three attempts.
C7_Witness ==
    /\ hpc = "returned"
    /\ retryAttempts = 3
    /\ sent = 3
    /\ retryDelay = 2
    /\ delays = <<2, 4>>
    /\ Got(200)
    /\ hresult.success
    /\ hresult.data = "d1"

\* C8 as claimed: at most retryAttempts attempts; every failure other than a 401 or a
\* 429 is retried, so a request that raised anything else made retryAttempts attempts
\* and raised NetworkException wrapping the failure of the last attempt, with no delay
\* after that attempt.
C8_AsClaimed ==
    /\ sent <= retryAttempts
    /\ (HRaised /\ ~Got(401) /\ ~Got(429)) =>
          /\ sent = retryAttempts
          /\ hresult.error.name = "NetworkException"
          /\ Len(delays) = (IF sent = 0 THEN 0 ELSE sent - 1)

\* C8 (amended): at most retryAttempts attempts; a network failure, a 5xx or an
\* unparsable JSON body is retried while attempts remain; a request that raised for
\* anything but a 401, a 429 or a timeout abort made retryAttempts attempts and raised
\* NetworkException whose originalError is the failure of the last attempt (none when
\* retryAttempts is 0), with no delay after the final attempt.
C8_Exhaustion ==
    /\ sent <= retryAttempts
    /\ attempt <= retryAttempts + 1
    /\ (HRaised /\ ~Got(401) /\ ~Got(429) /\ lastReply.kind # "abort") =>
          /\ sent = retryAttempts
          /\ hresult.error.name = "NetworkException"
          /\ Len(delays) = (IF sent = 0 THEN 0 ELSE sent - 1)
          /\ lastReply.kind = "none" => (sent = 0 /\ hresult.originalError = NoError)
          /\ lastReply.kind = "netfail" => hresult.originalError.name = "TypeError"
          /\ Got5xx => hresult.originalError =
                          [name |-> "ServerException", arg |-> lastReply.status]
          /\ GotBadJson => hresult.originalError.name = "SyntaxError"
          /\ lastReply.kind \in {"none", "netfail"} \/ Got5xx \/ GotBadJson

\* Three attempts that all failed, the last one by a network failure.
C8_Witness ==
    /\ hpc = "raised"
    /\ retryAttempts = 3
    /\ sent = 3
    /\ retryDelay = 1
    /\ delays = <<1, 2>>
    /\ lastReply.kind = "netfail"
    /\ hresult.error.name = "NetworkException"
    /\ hresult.originalError.name = "TypeError"

\* C9: once a fetch() was aborted by the timeout the request has raised
\* TimeoutException carrying the timeout; that attempt is not retried (no fetch() and no
\* delay() follows it) and it was one of the at most retryAttempts attempts of the loop.
C9_TimeoutNotRetried ==
    lastReply.kind = "abort" =>
        /\ hpc \in {"raised", "idle"}
        /\ hresult.kind = "raised"
        /\ hresult.error = [name |-> "TimeoutException", arg |-> timeout]
        /\ sent = attempt
        /\ sent >= 1 /\ sent <= retryAttempts
        /\ Len(delays) = sent - 1

\* The second of three attempts timed out after the first one had failed.
C9_Witness ==
    /\ lastReply.kind = "abort"
    /\ hpc = "raised"
    /\ retryAttempts = 3
    /\ sent = 2
    /\ Len(delays) = 1
    /\ hresult.error.name = "TimeoutException"

\* C10 as claimed: a request that raised after a 5xx response raised ServerException
\* carrying that status code.
C10_AsClaimed ==
    (HRaised /\ Got5xx) =>
        hresult.error = [name |-> "ServerException", arg |-> lastReply.status]

\* C10 (amended): a 5xx response makes the attempt fail with a ServerException carrying
\* the status code, which request() keeps as lastError and never raises itself; the
\* request does not return that response, is retried while attempts remain, and once
\* retryAttempts attempts were made raises NetworkException whose originalError is that
\* ServerException.
C10_ServerErrorCounted ==
    Got5xx =>
        /\ lastError = [name |-> "ServerException", arg |-> lastReply.status]
        /\ ~HReturned
        /\ hpc \in {"delaying", "fetching", "raised", "idle"}
        /\ hpc \in {"delaying", "fetching"} => sent <= retryAttempts
        /\ hpc = "delaying" => sent < retryAttempts
        /\ HRaised =>
              /\ sent = retryAttempts
              /\ hresult.error.name = "NetworkException"
              /\ hresult.originalError = lastError

\* A retry is in flight after a 500 on the first attempt.
C10_Witness ==
    /\ Got(500)
    /\ hpc = "fetching"
    /\ sent = 2
    /\ lastError = [name |-> "ServerException", arg |-> 500]

\* The cookies that a set-cookie header sets: for each piece between commas, the
\* name=value pair before the first ";", the name ending at the first "=" and the value
\* being all that follows it.
RECURSIVE FirstIndexOf(_, _, _)
FirstIndexOf(str, tok, from) ==
    IF from > Len(str) THEN 0
    ELSE IF str[from] = tok THEN from
    ELSE FirstIndexOf(str, tok, from + 1)
CookieOf(piece) ==
    LET pair == Trim(Split(piece, ";", <<>>)[1])
        eq == FirstIndexOf(pair, "=", 1)
    IN [name |-> SubSeq(pair, 1, eq - 1), value |-> SubSeq(pair, eq + 1, Len(pair))]
CookiesSetBy(header) ==
    IF header = NoHeader THEN {}
    ELSE LET pieces == Split(header, ",", <<>>) IN
         {CookieOf(pieces[i]) : i \in 1..Len(pieces)}
\* The value the jar holds for name, or <<>>.
JarValue(jar, name) ==
    LET i == NameIndex(jar, name, 1) IN IF i = 0 THEN <<>> ELSE jar[i].value
\* Header holds name=value as a whole entry.
HasEntry(header, entry) ==
    \E i \in 1..Len(header) :
        LET text == entry.name \o <<"=">> \o entry.value
            last == i + Len(text) - 1
        IN /\ last <= Len(header)
           /\ SubSeq(header, i, last) = text
           /\ (i = 1 \/ header[i - 1] = " ")
           /\ (last = Len(header) \/ header[last + 1] = ";")
\* The fetch() in flight carries every cookie of the jar (no Cookie header for an
\* empty jar).
SendsWholeJar ==
    hpc = "fetching" =>
        /\ \A i \in 1..Len(cookies) : HasEntry(cookieHeader, cookies[i])
        /\ cookies = <<>> => cookieHeader = NoHeader

\* C11 (cookies, as stated): once a response has been received, whatever its status,
\* the jar holds every cookie that the response's set-cookie header set, with the value
\* it set; and every fetch() in flight, first attempt or retry, carries all the cookies
\* of the jar.
C11_AsClaimed ==
    /\ lastReply.kind = "response" =>
          \A c \in CookiesSetBy(lastSetCookie) : JarValue(cookies, c.name) = c.value
    /\ SendsWholeJar

\* C11 restricted to cookies whose value holds no "=": these are in the jar, with their
\* value, as soon as the response has been received, whatever its status; and every
\* fetch() in flight carries all the cookies of the jar.
C11_PlainCookiesMerged ==
    /\ lastReply.kind = "response" =>
          \A c \in CookiesSetBy(lastSetCookie) :
              FirstIndexOf(c.value, "=", 1) = 0 => JarValue(cookies, c.name) = c.value
    /\ SendsWholeJar

\* A 401 response set "sid=a, tok=x==": the request has raised, the jar holds sid=a and
\* holds tok with the value x.
C11_Witness ==
    /\ Got(401)
    /\ hpc = "raised"
    /\ lastSetCookie = <<"sid", "=", "a", ",", " ", "tok", "=", "x", "=", "=">>
    /\ JarValue(cookies, <<"sid">>) = <<"a">>
    /\ JarValue(cookies, <<"tok">>) = <<"x">>

\* The second attempt of a request whose first attempt got a 500 that set sid=b is in
\* flight with the Cookie header sid=b.
C11_WitnessRetry ==
    /\ hpc = "fetching"
    /\ sent = 2
    /\ Got(500)
    /\ lastSetCookie = <<"sid", "=", "b", ";", " ", "Path", "=", "/">>
    /\ cookieHeader = <<"sid", "=", "b">>

\* C12 (client errors, as stated): a 404 response ends the request: it has returned
\* success = false and the status code, and no delay() and no fetch() follows it.
C12_AsClaimed ==
    Got(404) =>
        /\ hpc \in {"returned", "idle"}
        /\ HReturned
        /\ hresult.success = FALSE
        /\ hresult.statusCode = 404
        /\ attempt = sent
        /\ Len(delays) = sent - 1

\* C12 (client errors): a 404 response whose body is not malformed JSON ends the
\* request: it has returned success = false, the status code and, as data, the parsed
\* JSON body, the text of a text/plain body, or undefined for another content type or
\* an empty JSON body; no delay() and no fetch() follows it. A 404 response declared
\* JSON whose body does not parse is a failed attempt: it is not returned, and the
\* request goes on to its delay, its next attempt or its NetworkException.
C12_ClientErrorReturned ==
    /\ (Got(404) /\ ~GotBadJson) =>
          /\ hpc \in {"returned", "idle"}
          /\ HReturned
          /\ hresult.success = FALSE
          /\ hresult.statusCode = 404
          /\ attempt = sent
          /\ Len(delays) = sent - 1
          /\ (lastReply.ctype = "application/json" /\ lastReply.text = "j:d1")
                => hresult.data = "d1"
          /\ (lastReply.ctype = "application/json" /\ lastReply.text = "")
                => hresult.data = Undefined
          /\ lastReply.ctype = "text/plain" => hresult.data = lastReply.text
          /\ lastReply.ctype = "none" => hresult.data = Undefined
    /\ (Got(404) /\ GotBadJson) =>
          /\ ~HReturned
          /\ lastError = SyntaxError
          /\ HRaised => (sent = retryAttempts /\ hresult.error.name = "NetworkException"
                         /\ hresult.originalError = SyntaxError)

\* The first attempt of a client with three attempts got a 404 with a JSON body: the
\* request has returned it after one fetch().
C12_Witness ==
    /\ Got(404)
    /\ hpc = "returned"
    /\ retryAttempts = 3
    /\ sent = 1
    /\ delays = <<>>
    /\ hresult.success = FALSE
    /\ hresult.data = "d1"

(***************************************************************************)
(* Properties of ClientRepository, checked under SpecRepo.                 *)
(***************************************************************************)

\* The cache entry is inside its TTL window, written out: now - fetchedAt < TTL.
Fresh == cache.present /\ cacheTimestamp # NoTimestamp /\ now - cacheTimestamp < cacheTTL
\* The snapshot that the findAll() inside the finished operation returned.
Snapshot == IF servedFrom = "fallback" THEN <<>> ELSE cache.clients
\* The positions of the records of list whose name equals name case-insensitively.
Matches(list, name) ==
    {i \in 1..Len(list) : ToLowerCase(list[i].name) = ToLowerCase(name)}
Max(S) == CHOOSE x \in S : \A y \in S : y <= x
Min(S) == CHOOSE x \in S : \A y \in S : x <= y
\* The caller calls an operation in this step (the clock stands still).
CallStep == rpc \in {"idle", "done"} /\ now' = now /\ rpc' \in {"awaitFetch", "done"}

\* C1 (read-after-write, as stated): when delete(id) has returned without raising and
\* the findById(id) that follows it has fetched the client list, that findById(id)
\* raises ClientNotFoundException carrying id.
C1_AsClaimed ==
    (/\ rpc = "done"
     /\ rop.kind = "findById"
     /\ prevDeleted # 0
     /\ rop.id = prevDeleted
     /\ servedFrom = "fetch")
        => rret = ClientNotFoundException(prevDeleted)

\* C2 (write path): once the remote call of a mutating operation has returned a
\* response, with or without a body, cache and cacheTimestamp are both cleared: they are
\* cleared while the operation awaits the GET of its own follow-up read and when it ends
\* without one, and that follow-up read is never served from the cache.
C2_InvalidatesOnReturn ==
    (rop.kind \in MutationKinds /\ mutReply \in {"2xx", "non-2xx"}) =>
        /\ servedFrom # "cache"
        /\ (rpc = "awaitFetch" \/ (rpc = "done" /\ servedFrom # "fetch"))
              => (cache = NoCache /\ cacheTimestamp = NoTimestamp)
        /\ (rop.kind \notin {"create", "delete"} /\ mutReply = "non-2xx") => fetches = 1

\* enable(1) was answered 2xx without a body: the cache is cleared while the operation
\* awaits the GET of its follow-up findById(1).
C2_Witness ==
    /\ rop.kind = "enable"
    /\ mutReply = "2xx"
    /\ rpc = "awaitFetch"
    /\ remote # <<>>
    /\ cache = NoCache
    /\ cacheTimestamp = NoTimestamp
    /\ now > 0

\* C3 (TTL law): a findAll(forceRefresh) call issues the GET request if and only if
\* forceRefresh is true or the cache entry is absent or not younger than the TTL;
\* otherwise it returns the cached snapshot without a request and leaves the entry
\* alone; and a GET answered 2xx with a body replaces the entry by the fetched snapshot,
\* stamps it with the current time and returns it.
C3_FetchIffNoValidCache ==
    [][/\ (CallStep /\ rop'.kind = "findAll") =>
            /\ (rpc' = "awaitFetch") <=> (rop'.force \/ ~Fresh)
            /\ (rpc' = "awaitFetch") => (fetches' = 1 /\ UNCHANGED <<cache, cacheTimestamp>>)
            /\ (rpc' = "done") =>
                  /\ fetches' = 0
                  /\ rret' = RetCollection(cache.clients)
                  /\ UNCHANGED <<cache, cacheTimestamp>>
       /\ (rpc = "awaitFetch" /\ rop.kind = "findAll" /\ servedFrom' = "fetch") =>
            /\ cache' = CacheOf(FromRawData(remote))
            /\ cacheTimestamp' = now
            /\ rret' = RetCollection(cache'.clients)
            /\ fetches' = 1
      ]_vars

\* A findAll() one tick after the fetch, inside a TTL of two ticks, was served the
\* fetched snapshot without a request.
C3_Witness ==
    /\ rop.kind = "findAll"
    /\ rpc = "done"
    /\ servedFrom = "cache"
    /\ fetches = 0
    /\ cacheTTL = 2
    /\ cacheTimestamp = 0
    /\ now = 1
    /\ rret.clients # <<>>

\* C4 (create): a create answered non-2xx raises without a refetch; a create answered
\* 2xx issues exactly one GET, never reads the cache, and returns the last record of the
\* fetched snapshot whose name equals dto.name case-insensitively, or raises when the
\* snapshot has no such record.
C4_CreateReturnsLastMatch ==
    rop.kind = "create" =>
        /\ rpc = "awaitFetch" => (mutReply = "2xx" /\ fetches = 1)
        /\ (rpc = "done" /\ mutReply = "non-2xx") =>
              (fetches = 0 /\ rret = Throw("Error: Failed to create client"))
        /\ (rpc = "done" /\ mutReply = "2xx") =>
              /\ fetches = 1
              /\ servedFrom \in {"fetch", "fallback", "raised"}
              /\ servedFrom \in {"fetch", "fallback"} =>
                    LET found == Matches(Snapshot, rop.name) IN
                    IF found = {}
                      THEN rret = Throw("Error: Failed to find created client")
                      ELSE rret = RetClient(Snapshot[Max(found)])

\* create({name: "Dev"}) beside an older client named "dev": both match, the newer one
\* (the last of the snapshot) is returned.
C4_Witness ==
    /\ rop.kind = "create"
    /\ rop.name = "Dev"
    /\ rpc = "done"
    /\ servedFrom = "fetch"
    /\ Len(cache.clients) = 2
    /\ cache.clients[1].name = "dev"
    /\ cache.clients[2].name = "Dev"
    /\ rret = RetClient(cache.clients[2])

\* A create answered 2xx whose refetch was answered without a usable body raises.
C4_WitnessNotFound ==
    /\ rop.kind = "create"
    /\ rpc = "done"
    /\ mutReply = "2xx"
    /\ servedFrom = "fallback"
    /\ rret = Throw("Error: Failed to find created client")

RepoRequesting == rpc \in {"awaitFetch", "awaitMutation"}
\* The probe of the latest call was answered (the transport raised nothing).
ProbeAnswered ==
    /\ authReqs # <<>>
    /\ Head(authReqs) = "probe"
    /\ apc # "awaitProbe"
    /\ (Len(authReqs) = 1 => lastStatus \notin {401, 429, 500, 0})

\* C13 as claimed: whenever a request of the repository is in flight on behalf of a
\* ClientService operation (count and exists included), ensureAuthenticated() has
\* completed for that operation.
C13_AsClaimed ==
    (sop # NoOp /\ spc \in {"awaitRepo", "awaitDelete"} /\ RepoRequesting) => ensured

\* C13, the operations that do start with ensureAuth(): while one of them has a request
\* of the repository in flight, ensureAuthenticated() has completed for it.
C13_GuardedOpsEnsure ==
    (sop # NoOp /\ sop.kind \notin {"count", "exists"} /\ RepoRequesting) => ensured

\* C13: count() has the repository's GET in flight and ensureAuthenticated() was never
\* called for it.
C13_Witness ==
    /\ sop.kind = "count"
    /\ rpc = "awaitFetch"
    /\ ~ensured
    /\ authReqs = <<>>
    /\ ~session.present

\* C14: a call of ensureAuthenticated() made while the local session is authenticated
\* and not expired sends no request and leaves the session, the cookies and the events
\* as they are; a call made once now > expiresAt sends the probe, whatever the session
\* recorded before.
C14_LiveSessionNoProbe ==
    [][AuthCall("ensureAuthenticated") =>
         LET expired == session.expiresAt # NoExpiry /\ now > session.expiresAt IN
         /\ (session.present /\ session.authenticated /\ ~expired) =>
               /\ authReqs' = <<>>
               /\ apc' = "done"
               /\ aret' = AuthReturned
               /\ session' = session
               /\ cookies' = cookies
               /\ events' = <<>>
         /\ (session.present /\ expired) =>
               /\ authReqs' = <<"probe">>
               /\ apc' = "awaitProbe"
               /\ ~session'.authenticated]_vars

\* C14: ensureAuthenticated() returned without a request on a session that tracks an
\* expiry instant not yet passed.
C14_Witness ==
    /\ aop = "ensureAuthenticated"
    /\ apc = "done"
    /\ aret = AuthReturned
    /\ authReqs = <<>>
    /\ session.authenticated
    /\ session.expiresAt # NoExpiry
    /\ now = session.expiresAt

\* C14: the probe is in flight for a session whose expiry instant has passed.
C14_WitnessExpired ==
    /\ aop = "ensureAuthenticated"
    /\ apc = "awaitProbe"
    /\ session.expiresAt # NoExpiry
    /\ now > session.expiresAt

\* How many times event e was emitted.
CountOf(q, e) == Cardinality({i \in DOMAIN q : q[i] = e})

\* ensureAuthenticated() sent the probe and then the login request, and has settled.
LoginSettled ==
    /\ aop = "ensureAuthenticated"
    /\ apc = "done"
    /\ authReqs = <<"probe", "login">>

\* C15 as claimed: with a configured password, after a probe that did not report
\* authenticated, a login answered 2xx leaves the session authenticated with exactly one
\* auth:login event, and a login answered with any non-2xx status makes
\* ensureAuthenticated() raise AuthenticationException("Invalid password"), the session
\* staying unauthenticated.
C15_AsClaimed ==
    (password # Undefined /\ LoginSettled /\ lastStatus # 0) =>
        IF ResponseOk(lastStatus)
        THEN /\ aret = AuthReturned
             /\ session.present /\ session.authenticated
             /\ CountOf(events, "auth:login") = 1
        ELSE /\ aret = AuthenticationException("Invalid password")
             /\ ~session.authenticated

\* C15, what the code does: as claimed for a 2xx answer and for the non-2xx statuses
\* that the transport returns; 401, 429 and 5xx leave ensureAuthenticated() as the
\* transport's own exception. The session stays unauthenticated in every failure.
C15_LoginOutcomes ==
    (password # Undefined /\ LoginSettled /\ lastStatus # 0) =>
        IF ResponseOk(lastStatus)
        THEN /\ aret = AuthReturned
             /\ session.present /\ session.authenticated
             /\ CountOf(events, "auth:login") = 1
        ELSE /\ aret = IF lastStatus = 401 THEN AuthRaised("UnauthorizedException", "")
                       ELSE IF lastStatus = 429 THEN AuthRaised("RateLimitException", "")
                       ELSE IF lastStatus >= 500 THEN AuthRaised("NetworkException", "")
                       ELSE AuthenticationException("Invalid password")
             /\ ~session.authenticated
             /\ CountOf(events, "auth:login") = 0

\* C15: the login request of ensureAuthenticated() was answered 401 and
\* UnauthorizedException left ensureAuthenticated().
C15_Witness ==
    /\ password # Undefined
    /\ LoginSettled
    /\ lastStatus = 401
    /\ aret = AuthRaised("UnauthorizedException", "")
    /\ ~session.authenticated

\* C15: the login of ensureAuthenticated() succeeded.
C15_WitnessLogin ==
    /\ LoginSettled
    /\ lastStatus = 200
    /\ session.authenticated
    /\ CountOf(events, "auth:login") = 1

\* C16: without a configured password, once the probe was answered and the session is
\* not authenticated, ensureAuthenticated() has raised AuthenticationException, no login
\* request was sent, and the operation that awaited it calls the repository for nothing:
\* it ends with that exception.
C16_NoPasswordNoLogin ==
    (/\ password = Undefined
     /\ sop # NoOp /\ sop.kind \notin {"count", "exists"}
     /\ ProbeAnswered
     /\ ~session.authenticated)
    => /\ apc = "done"
       /\ aret = AuthenticationException("Not authenticated and no password provided")
       /\ authReqs = <<"probe">>
       /\ ~ensured
       /\ ~RepoRequesting
       /\ spc \in {"awaitAuth", "done"}
       /\ spc = "done" => sret = SvcRet(Throw("AuthenticationException"), "none", -1)

\* C16: an operation ended with the AuthenticationException of a probe answered "not
\* authenticated", no password being configured.
C16_Witness ==
    /\ password = Undefined
    /\ sop.kind = "getAll"
    /\ spc = "done"
    /\ sret.ret = Throw("AuthenticationException")
    /\ authReqs = <<"probe">>
    /\ lastStatus = 200
    /\ session.present /\ ~session.authenticated

\* logout() has settled.
LogoutSettled == aop = "logout" /\ apc = "done"

\* C17 as claimed: a logout() that returns has emptied the cookie jar, cleared the
\* session and emitted auth:logout; a logout() called right after a logout() that
\* returned does return, with the jar empty and the session cleared, whatever status
\* answers its revoke request.
C17_AsClaimed ==
    LogoutSettled =>
        /\ aret = AuthReturned =>
              /\ authReqs = <<"revoke">>
              /\ cookies = <<>>
              /\ session = NoSession
              /\ events = <<"auth:logout">>
        /\ prevLoggedOut =>
              /\ aret = AuthReturned
              /\ cookies = <<>>
              /\ session = NoSession

\* C17, what the code does: logout() returns, with jar and session cleared and one
\* auth:logout, exactly when the transport returns the answer to the revoke request (any
\* status other than 401, 429, 5xx); otherwise the transport's exception leaves
\* logout() with no event emitted.
C17_LogoutFollowsRevoke ==
    LogoutSettled =>
        IF lastStatus \in {401, 429, 500, 0}
        THEN /\ aret.kind = "raised"
             /\ aret.error \in TransportErrors
             /\ events = <<>>
        ELSE /\ aret = AuthReturned
             /\ cookies = <<>>
             /\ session = NoSession
             /\ events = <<"auth:logout">>

\* C17: a logout() called right after a logout() that returned has raised, its revoke
\* request having been answered 401.
C17_Witness ==
    /\ LogoutSettled
    /\ prevLoggedOut
    /\ lastStatus = 401
    /\ aret = AuthRaised("UnauthorizedException", "")
    /\ events = <<>>

\* C17: the second logout() raised and the cookie of the 401 answer is in the jar.
C17_WitnessJar ==
    /\ LogoutSettled
    /\ prevLoggedOut
    /\ aret.kind = "raised"
    /\ cookies # <<>>

\* The domain events, and how many of them the latest call emitted.
ClientEvents ==
    {"client:created", "client:deleted", "client:enabled", "client:disabled",
     "client:updated"}
ClientEventCount == Cardinality({i \in DOMAIN events : events[i] \in ClientEvents})
\* A mutating operation of ClientService has settled.
MutatorSettled == spc = "done" /\ EventOf(sop) # NoEvent

\* C18 as claimed: a settled create, delete, enable, disable, rename or updateAddress has
\* emitted one event, of its kind, if its remote call was answered 2xx, the cache being
\* invalidated or refetched, and no event if the remote call raised, was answered
\* non-2xx, or was never made; it emits nothing but that one event.
C18_AsClaimed ==
    MutatorSettled =>
        /\ ClientEventCount = CountOf(events, EventOf(sop))
        /\ ClientEventCount <= 1
        /\ ClientEventCount = 1 =>
              /\ mutReply = "2xx"
              /\ (cache = NoCache \/ servedFrom = "fetch")
        /\ mutReply \in {"raised", "non-2xx", "none"} => ClientEventCount = 0

\* C18, what the code does: a settled mutating operation has emitted one event of its
\* kind exactly when its repository calls returned, and none when one of them raised;
\* create returns only after a 2xx answer.
C18_EventsFollowReturn ==
    MutatorSettled =>
        /\ ClientEventCount = CountOf(events, EventOf(sop))
        /\ ClientEventCount = IF sret.ret.kind = "returned" THEN 1 ELSE 0
        /\ ClientEventCount = 1 =>
              /\ ensured
              /\ mutReply \in {"2xx", "non-2xx"}
              /\ (cache = NoCache \/ servedFrom = "fetch")
              /\ sop.kind = "create" => mutReply = "2xx"

\* C18: delete(id) has emitted client:deleted although the DELETE request was answered
\* with a non-2xx status and the remote service still holds the client.
C18_Witness ==
    /\ MutatorSettled
    /\ sop.kind = "delete"
    /\ mutReply = "non-2xx"
    /\ events = <<"client:deleted">>
    /\ Holds(remote, sop.id)

\* C18: enable(id) has emitted client:enabled after a non-2xx answer.
C18_WitnessEnable ==
    /\ MutatorSettled
    /\ sop.kind = "enable"
    /\ mutReply = "non-2xx"
    /\ CountOf(events, "client:enabled") = 1

\* The latest ClientService operation has settled after a repository call of its own
\* raised a transport error, or after its ensureAuthenticated() did.
RepoRaisedTransport ==
    /\ spc = "done"
    /\ ensured \/ sop.kind \in {"count", "exists"}
    /\ rret.kind = "raised"
    /\ rret.error \in TransportErrors
AuthRaisedTransport ==
    /\ spc = "done"
    /\ sop # NoOp /\ sop.kind \notin {"count", "exists"}
    /\ ~ensured
    /\ aret.kind = "raised"
    /\ aret.error \in TransportErrors

\* C19 as claimed: a transport error raised during an AuthService or ClientRepository
\* operation is the error the caller's operation ends with; no operation turns it into a
\* normal return value.
C19_AsClaimed ==
    /\ RepoRaisedTransport => sret = SvcRet(rret, "none", -1)
    /\ AuthRaisedTransport => sret = SvcRet(Throw(aret.error), "none", -1)

\* C19, what the code does: as claimed for every operation but exists, which returns
\* false.
C19_AllButExists ==
    /\ RepoRaisedTransport =>
          sret = IF sop.kind = "exists" THEN SvcRet(RetVoid, "false", -1)
                 ELSE SvcRet(rret, "none", -1)
    /\ AuthRaisedTransport => sret = SvcRet(Throw(aret.error), "none", -1)

\* C19: exists(id) returned false after the GET of its findById ended in
\* NetworkException.
C19_Witness ==
    /\ spc = "done"
    /\ sop.kind = "exists"
    /\ rret = Throw("NetworkException")
    /\ servedFrom = "raised"
    /\ sret = SvcRet(RetVoid, "false", -1)

\* C19: a transport error of the probe ended a guarded operation.
C19_WitnessAuth ==
    /\ AuthRaisedTransport
    /\ sret = SvcRet(Throw("UnauthorizedException"), "none", -1)

\* The latest ClientService operation was called with malformed input.
Malformed == sop # NoOp /\ ~Validates(RepoOpOf(sop))

\* C20 as claimed: an operation called with malformed input sends no request, neither
\* probe nor login nor a request of the repository, and ends with ValidationException.
C20_AsClaimed ==
    Malformed =>
        /\ authReqs = <<>>
        /\ apc \notin {"awaitProbe", "awaitLogin"}
        /\ ~RepoRequesting
        /\ spc = "done" => sret = SvcRet(Throw("ValidationException"), "none", -1)

\* C20, what the code does: the repository validates before it sends anything, so a
\* malformed operation never has a repository request in flight, and once the repository
\* was called it has raised ValidationException with nothing fetched; ensureAuth() runs
\* before that, and exists turns the exception into false.
C20_RepositoryValidatesFirst ==
    Malformed =>
        /\ ~RepoRequesting
        /\ (spc = "done" /\ (ensured \/ sop.kind = "exists")) =>
              /\ rret = Throw("ValidationException")
              /\ fetches = 0
              /\ mutReply = "none"
              /\ sret = IF sop.kind = "exists" THEN SvcRet(RetVoid, "false", -1)
                       ELSE SvcRet(rret, "none", -1)

\* C20: create with an invalid name ended with ValidationException after the probe and
\* the login request were sent, the session and the cookie jar having changed.
C20_Witness ==
    /\ sop = Op("create", 0, "bad name", "", FALSE)
    /\ spc = "done"
    /\ sret = SvcRet(Throw("ValidationException"), "none", -1)
    /\ authReqs = <<"probe", "login">>
    /\ session.authenticated
    /\ cookies # <<>>

(***************************************************************************)
(* Properties of EventEmitter, checked under SpecEmitter.                  *)
(***************************************************************************)

\* The caller's latest emit() has returned.
EmitDone == frames = <<>> /\ eresult = "returned"
\* The handlers invoked since the caller's latest emit() started.
InvokedSet == {Handler(invoked[i]) : i \in DOMAIN invoked}

WrapperRegistered(w) ==
    \E event \in EventTypes : \E i \in DOMAIN handlers[event] :
        handlers[event][i].live /\ handlers[event][i].wrapper = w

\* C22: a handler registered with once() has been invoked at most once, whatever emits
\* were made and re-entered, and it is not registered any more from its invocation on.
C22_OnceAtMostOnce ==
    \A w \in DOMAIN wrapperCalls :
        /\ wrapperCalls[w] <= 1
        /\ wrapperCalls[w] = 1 => ~WrapperRegistered(w)

\* C22: emit() was re-entered from handler 2 while the first emit() was running; the
\* inner emit() invoked the handler registered with once(), the outer one then passed
\* it over and returned.
C22_Witness ==
    /\ EmitDone
    /\ Len(invoked) = 3
    /\ invoked[1].id = 2 /\ invoked[1].depth = 1
    /\ invoked[2].id = 2 /\ invoked[2].depth = 2
    /\ invoked[3].wrapper # 0 /\ invoked[3].depth = 2
    /\ wrapperCalls[invoked[3].wrapper] = 1

\* C22: a handler registered with once() that itself calls emit() was not invoked by the
\* emit() it made.
C22_WitnessSelf ==
    /\ EmitDone
    /\ Len(invoked) = 1
    /\ invoked[1].id = 2 /\ invoked[1].wrapper # 0
    /\ atStart = {Handler(invoked[1])}

\* The handlers that the forEach of the caller's latest emit() invoked itself.
InvokedByOuter == {Handler(invoked[i]) : i \in {j \in DOMAIN invoked : invoked[j].depth = 1}}

\* C23 as claimed: the handlers an emit() invokes are among those registered for its
\* event type when it started, and when it has returned they are exactly those.
C23_AsClaimed ==
    /\ InvokedByOuter \subseteq atStart
    /\ EmitDone => InvokedByOuter = atStart

\* C23: emit() started with handler 3 alone registered; handler 3 registered handler 4
\* during the emit, and the same emit invoked handler 4.
C23_Witness ==
    /\ EmitDone
    /\ atStart = {[id |-> 3, wrapper |-> 0]}
    /\ Len(invoked) = 2
    /\ invoked[1].id = 3 /\ invoked[1].depth = 1
    /\ invoked[2].id = 4 /\ invoked[2].depth = 1

(***************************************************************************)
(* Properties of ClientCollection, checked under SpecCollection.           *)
(***************************************************************************)

\* C24: no operation of a collection changes the collection it is called on: after any
\* sequence of add, remove, update, filterBy, sortByTransfer, search, paginate and
\* getStatistics the receiver holds the clients, in the order, it held when the caller
\* received it.
C24_ReceiverUnchanged == heap[Receiver] = held
\* add, remove and update returned a collection that differs from the receiver.
C24_Witness ==
    /\ cop.kind \in {"add", "remove", "update"}
    /\ cres.ref = 2
    /\ heap[2] # heap[Receiver]
    /\ heap[Receiver] = held
    /\ held # <<>>

\* A client satisfies every criterion that a filter supplies.
Satisfies(c, f) ==
    /\ f.enabled = "true" => c.enabled
    /\ f.enabled = "false" => ~c.enabled
    /\ f.nameContains # NoString => Includes(Lower(c.name), Lower(f.nameContains))
    /\ f.minTransferTx # NoMin => c.transferTx >= f.minTransferTx
\* q holds, in the order of array, exactly the elements of array that pass Test.
ExactlyThose(q, array, Test(_)) ==
    \E keep \in SUBSET DOMAIN array :
        /\ keep = {i \in DOMAIN array : Test(array[i])}
        /\ Len(q) = Cardinality(keep)
        /\ \A i \in keep : q[Cardinality({j \in keep : j <= i})] = array[i]
C25_WitnessTwoCriteria ==
    /\ cop.kind = "filterBy"
    /\ Len(cop.filters) = 1
    /\ cop.filters[1].enabled = "false"
    /\ cop.filters[1].minTransferTx = 1
    /\ Len(heap[cres.ref]) = 2

\* The items of held at the 0-based positions from..(to - 1) that held has.
Positions(from, to) ==
    LET lo == IF from < 0 THEN 0 ELSE from
        hi == IF to > Len(held) THEN Len(held) ELSE to
    IN [i \in 1..(IF hi > lo THEN hi - lo ELSE 0) |-> held[lo + i]]
\* C26: paginate({page, limit}) of the 1-indexed pages: total is the size, totalPages is
\* the least number of pages of limit items that hold them all, items are the positions
\* (page - 1) * limit up to (page - 1) * limit + limit that the collection has,
\* hasNext = page < totalPages and hasPrev = page > 1.
C26_PaginateResult ==
    (cop.kind = "paginate" /\ cop.page >= 1) =>
        /\ cres.total = Len(held)
        /\ cres.totalPages * cop.limit >= Len(held)
        /\ cres.totalPages >= 0
        /\ cres.totalPages > 0 => (cres.totalPages - 1) * cop.limit < Len(held)
        /\ cres.items = Positions((cop.page - 1) * cop.limit, cop.page * cop.limit)
        /\ cres.hasNext = (cop.page < cres.totalPages)
        /\ cres.hasPrev = (cop.page > 1)
\* The last page of a collection whose size is no multiple of the limit.
C26_Witness ==
    /\ cop.kind = "paginate"
    /\ cop.limit = 2
    /\ cop.page = 2
    /\ cres.total = 3
    /\ cres.totalPages = 2
    /\ Len(cres.items) = 1
    /\ ~cres.hasNext
    /\ cres.hasPrev
\* A first page with a next page.
C26_WitnessFirst ==
    /\ cop.kind = "paginate"
    /\ cop.page = 1
    /\ Len(cres.items) = cop.limit
    /\ cres.hasNext
    /\ ~cres.hasPrev

\* C27: walking the pages from page 1 while hasNext: the pages walked so far hold the
\* first items of the collection, each once and in order; every page that has a next
\* page holds exactly limit items; and when the walk ends, at page ceil(S / L), the
\* pages together hold the whole collection.
C27_PagesPartition ==
    (cop.kind = "paginate" /\ cop.first = 1) =>
        /\ cres.seen = Positions(0, cop.page * cop.limit)
        /\ cres.hasNext => Len(cres.items) = cop.limit
        /\ ~cres.hasNext =>
              /\ cres.seen = held
              /\ cop.page * cop.limit >= Len(held)
              /\ cop.page > 1 => (cop.page - 1) * cop.limit < Len(held)
\* A walk of more than one page that ended on a page with fewer than limit items.
C27_Witness ==
    /\ cop.kind = "paginate"
    /\ cop.first = 1
    /\ cop.page = 2
    /\ cop.limit = 2
    /\ ~cres.hasNext
    /\ Len(held) = 3
    /\ cres.seen = held
\* A walk of MaxSize pages of one item.
C27_WitnessLong ==
    /\ cop.kind = "paginate"
    /\ cop.first = 1
    /\ cop.page = MaxSize
    /\ cop.limit = 1
    /\ ~cres.hasNext
    /\ cres.seen = held

\* C28: paginate of a page that is out of range (page > totalPages, page = 0 or
\* page < 0) returns no items.
C28_AsClaimed ==
    (cop.kind = "paginate" /\ (cop.page > cres.totalPages \/ cop.page <= 0)) =>
        cres.items = <<>>
\* A negative page returned items.
C28_Witness ==
    /\ cop.kind = "paginate"
    /\ cop.page < 0
    /\ cres.items # <<>>

\* C29: the clients counted online are those with a handshake less than 3 minutes old
\* when getStatistics is called, and in getStatistics online + offline = total and
\* enabled + disabled = total.
C29_AsClaimed ==
    cop.kind = "getStatistics" =>
        /\ cres.stats.online =
              Cardinality({i \in DOMAIN held :
                              /\ held[i].latestHandshakeAt # NoHandshake
                              /\ cop.t - held[i].latestHandshakeAt < FreshnessWindow})
        /\ cres.stats.online + cres.stats.offline = cres.stats.total
        /\ cres.stats.enabled + cres.stats.disabled = cres.stats.total
\* A client was counted online and offline.
C29_Witness ==
    /\ cop.kind = "getStatistics"
    /\ cop.d > 0
    /\ cres.stats.online + cres.stats.offline > cres.stats.total

(***************************************************************************)
(* Properties of WgEasyClient, checked under SpecClient.                   *)
(***************************************************************************)

\* C30: connect() resolves exactly when the ensureAuthenticated() of its initialize()
\* returned, and then isInitialized() and isAuthenticated() are true; it rejects, the
\* client not initialized, when ensureAuthenticated() threw. initialized is set only by
\* an initialize() whose ensureAuthenticated() returned, and an initialize() of an
\* initialized client returns without a request.
C30_ConnectAuthenticates ==
    [][/\ (wcall.op = "connect" /\ wcall.pc = "awaitEnsure" /\ wcall'.pc = "done") =>
             /\ wcall'.ret = "resolved" <=> aret.kind = "returned"
             /\ wcall'.ret = "rejected" <=> aret.kind = "raised"
             /\ wcall'.ret = "resolved" =>
                   initialized' /\ IsAuthenticated(session', now')
             /\ wcall'.ret = "rejected" => ~initialized'
       /\ (~initialized /\ initialized') =>
             /\ wcall.pc = "awaitEnsure"
             /\ aop = "ensureAuthenticated"
             /\ apc = "done"
             /\ aret.kind = "returned"
       /\ (initialized /\ wcall' # wcall) =>
             /\ wcall' = [op |-> "initialize", pc |-> "done", ret |-> "resolved"]
             /\ authReqs' = authReqs
             /\ apc' = apc
             /\ session' = session]_vars
\* connect() resolved after the probe found no session and the login succeeded.
C30_Witness ==
    /\ wcall = [op |-> "connect", pc |-> "done", ret |-> "resolved"]
    /\ aop = "ensureAuthenticated"
    /\ authReqs = <<"probe", "login">>
    /\ initialized
    /\ IsAuthenticated(session, now)
\* connect() rejected.
C30_WitnessRejected ==
    /\ wcall = [op |-> "connect", pc |-> "done", ret |-> "rejected"]
    /\ ~initialized
\* initialize() of an initialized client whose session has been logged out.
C30_WitnessAgain ==
    /\ wcall = [op |-> "initialize", pc |-> "done", ret |-> "resolved"]
    /\ initialized
    /\ aop = "logout"
    /\ session = NoSession

(***************************************************************************)
(* Properties of the bulk operations, checked under SpecBulk.              *)
(***************************************************************************)

\* C31: a bulk operation calls the single-item operation on the items of its list in
\* order, one at a time; when the operation on item k raises, the bulk operation raises
\* that error with the events of the items before k emitted, with items 1..k the only
\* ones attempted, and with nothing undone on the remote service (a client that item k
\* does not name is as it was when item k started); when none raises, every item has
\* been attempted and the bulk operation returns.
C31_BulkSequentialNoRollback ==
    LET IsClientEvent(e) == e \in ClientEvents
        emitted == SelectSeq(bulk.emitted, IsClientEvent)
    IN
    bulk.pc # "idle" =>
        /\ bulk.called = SubSeq(bulk.items, 1, bulk.k)
        /\ bulk.pc = "running" => (sop = bulk.items[bulk.k] /\ bulk.failed = 0)
        /\ bulk.failed # 0 =>
              /\ bulk.pc = "done"
              /\ bulk.ret = "raised"
              /\ bulk.k = bulk.failed
        /\ bulk.ret = "raised" =>
              /\ bulk.failed = bulk.k
              /\ bulk.error = sret.ret.error
              /\ emitted = [i \in 1..(bulk.k - 1) |-> EventOf(bulk.items[i])]
              /\ \A i \in DOMAIN bulk.snap :
                    bulk.snap[i].id # bulk.items[bulk.k].id =>
                        \E j \in DOMAIN remote : remote[j] = bulk.snap[i]
        /\ bulk.ret = "returned" =>
              /\ bulk.k = Len(bulk.items)
              /\ emitted = [i \in 1..bulk.k |-> EventOf(bulk.items[i])]
\* bulkCreate(["dev", "bad name"]) raised at the second item after the first was created.
C31_Witness ==
    /\ bulk.kind = "bulkCreate"
    /\ bulk.ret = "raised"
    /\ bulk.k = 2
    /\ bulk.error = "ValidationException"
    /\ "client:created" \in {bulk.emitted[i] : i \in DOMAIN bulk.emitted}
    /\ Len(remote) = 2
\* bulkDisable([1, 1]) raised at the first item, the second never attempted.
C31_WitnessFirst ==
    /\ bulk.kind = "bulkDisable"
    /\ Len(bulk.items) = 2
    /\ bulk.ret = "raised"
    /\ bulk.k = 1
    /\ bulk.error = "NetworkException"
\* A bulk operation on two items returned.
C31_WitnessReturned ==
    /\ bulk.kind = "bulkEnable"
    /\ bulk.ret = "returned"
    /\ bulk.k = 2

(***************************************************************************)
(* Properties of overlapping callers, checked under SpecOverlap.           *)
(***************************************************************************)

\* C32 as claimed: a findAll() that the first caller invoked after its delete returned,
\* and that was answered from the cache, returns a list that the remote service gave out
\* after the remote call of the delete completed.
C32_AsClaimed ==
    (rop.kind = "findAll" /\ rpc = "done" /\ servedFrom = "cache") => ~overlap.stale
\* findAll() returned the deleted client from the cache that the overlapping findAll()
\* had stored.
C32_Witness ==
    /\ rop.kind = "findAll"
    /\ rpc = "done"
    /\ servedFrom = "cache"
    /\ prevDeleted = 1
    /\ overlap.stale
    /\ remote = <<>>
    /\ rret.clients # <<>>

(***************************************************************************)
(* Properties of concurrent ensureAuthenticated(), under SpecConcurrent.   *)
(***************************************************************************)

\* C33 as claimed: the calls of ensureAuthenticated() made together on a client with a
\* password send at most one login request and emit at most one auth:login.
C33_AsClaimed ==
    HasPassword(password) =>
        /\ CountOf(authReqs, "login") <= 1
        /\ CountOf(events, "auth:login") <= 1
\* Two calls made together both probed, both logged in, and both emitted auth:login.
C33_Witness ==
    /\ callers = <<"returned", "returned">>
    /\ authReqs = <<"probe", "probe", "login", "login">>
    /\ events = <<"auth:login", "auth:login">>

(***************************************************************************)
(* More properties of HttpClient.request, checked under SpecHttp.          *)
(***************************************************************************)

\* Config.validateConfig: the numbers a configuration is accepted with (an accepted
\* configuration is what the HttpClient is constructed from).
ValidateConfig(timeoutMs, attempts, delayMs) ==
    /\ ~(timeoutMs <= 0)
    /\ ~(attempts < 0)
    /\ ~(delayMs < 0)

\* C34 as claimed: with any configuration that Config accepts (retryAttempts 0 included),
\* request() has sent at least one HTTP request when it fails with NetworkException.
C34_AsClaimed ==
    (/\ ValidateConfig(timeout, retryAttempts, retryDelay)
     /\ hpc = "raised"
     /\ hresult.error.name = "NetworkException") => sent >= 1
\* request() raised NetworkException without a fetch(), under an accepted configuration.
C34_Witness ==
    /\ ValidateConfig(timeout, retryAttempts, retryDelay)
    /\ retryAttempts = 0
    /\ hpc = "raised"
    /\ hresult = NetworkException(NoError)
    /\ sent = 0

\* C35 as claimed: the one request() call that create() makes for its POST gets at most
\* one request to the remote service: it never holds the response to a later fetch()
\* after an earlier fetch() of the same call was answered with a 5xx response.
C35_AsClaimed ==
    ~(/\ hpc # "fetching"
      /\ sent >= 2
      /\ lastReply.kind = "response"
      /\ lastReply.status < 500
      /\ lastError.name = "ServerException")
\* The first fetch() was answered 500, the retry was answered 200: the remote service
\* received the request twice.
C35_Witness ==
    /\ hpc = "returned"
    /\ sent = 2
    /\ lastError = ServerException(500)
    /\ lastReply.kind = "response"
    /\ lastReply.status = 200
    /\ hresult.success

(***************************************************************************)
(* More properties of ClientService, checked under SpecService.            *)
(***************************************************************************)

\* C36: when the request of a mutating operation raises, the step that delivers the
\* error leaves the cache entry and its timestamp as they were, and the service
\* operation that made the request ends without its event among the events emitted.
C36_FailedMutationLeavesNoTrace ==
    [][/\ (rpc = "awaitMutation" /\ mutReply' = "raised") =>
              /\ cache' = cache
              /\ cacheTimestamp' = cacheTimestamp
              /\ rret'.kind = "raised"
       /\ (spc # "done" /\ spc' = "done" /\ mutReply = "raised") =>
              /\ sret'.ret.kind = "raised"
              /\ \A i \in DOMAIN events' : events'[i] \notin ClientEvents]_vars
\* A delete whose DELETE request raised TimeoutException ended with that error, with the
\* cache entry filled before the request still in place.
C36_Witness ==
    /\ spc = "done"
    /\ sop.kind = "delete"
    /\ mutReply = "raised"
    /\ sret.ret.kind = "raised"
    /\ sret.ret.error = "TimeoutException"
    /\ cache.present
    /\ cacheTimestamp # NoTimestamp
\* A rename whose PUT request raised UnauthorizedException ended without client:updated.
C36_WitnessRename ==
    /\ spc = "done"
    /\ sop.kind = "rename"
    /\ mutReply = "raised"
    /\ sret.ret.error = "UnauthorizedException"
    /\ events = <<"auth:login">>

(***************************************************************************)
(* More properties of ClientRepository, checked under SpecRepo.            *)
(***************************************************************************)

\* C37: when the GET of findAll() is answered without a 2xx status or without a body,
\* findAll() returns an empty collection instead of raising and leaves the cache entry and
\* its timestamp as they were; a findAll() called while the entry is valid is served that
\* entry without a request.
C37_FallbackKeepsCache ==
    [][/\ (rpc = "awaitFetch" /\ servedFrom' = "fallback") =>
              /\ cache' = cache
              /\ cacheTimestamp' = cacheTimestamp
              /\ rop.kind = "findAll" =>
                     (rret'.kind = "returned" /\ rret'.clients = <<>>)
       /\ (/\ rpc \in {"idle", "done"}
           /\ rop'.kind = "findAll"
           /\ ~rop'.force
           /\ rpc' # rpc \/ rop' # rop \/ rret' # rret
           /\ isCacheValid) =>
              /\ rpc' = "done"
              /\ rret' = RetCollection(cache.clients)
              /\ fetches' = 0
              /\ cache' = cache
              /\ cacheTimestamp' = cacheTimestamp]_vars
\* findAll(true) got a non-2xx answer while a valid entry holding a client was cached:
\* it returned the empty collection and the entry is still valid.
C37_Witness ==
    /\ rpc = "done"
    /\ rop.kind = "findAll"
    /\ rop.force
    /\ servedFrom = "fallback"
    /\ rret = RetCollection(<<>>)
    /\ cache.present
    /\ cache.clients # <<>>
    /\ isCacheValid

(***************************************************************************)
(* Properties of the session, checked under SpecSession.                   *)
(***************************************************************************)

C38_WitnessLoggedOut ==
    /\ rret.kind = "raised"
    /\ rret.error = "UnauthorizedException"
    /\ prevLoggedOut
    /\ aop = "ensureAuthenticated"
    /\ apc = "awaitProbe"

\* C39: the cached snapshot and its timestamp are absent together or present together,
\* and a step that changes either of them clears both or stores the collection just
\* fetched together with the instant of that step.
C39_CacheAndTimestampTogether ==
    /\ [](cache.present <=> cacheTimestamp # NoTimestamp)
    /\ [][(cache' # cache \/ cacheTimestamp' # cacheTimestamp) =>
              \/ cache' = NoCache /\ cacheTimestamp' = NoTimestamp
              \/ /\ rpc = "awaitFetch"
                 /\ servedFrom' = "fetch"
                 /\ cache' = CacheOf(FromRawData(remote))
                 /\ cacheTimestamp' = now
                 /\ now' = now]_vars
\* A snapshot fetched at instant 1 is cached with timestamp 1.
C39_Witness ==
    /\ rpc = "done"
    /\ servedFrom = "fetch"
    /\ cache.present
    /\ cache.clients # <<>>
    /\ now = 1
    /\ cacheTimestamp = 1
\* A mutation cleared an entry that had been stored: both are absent again.
C39_WitnessCleared ==
    /\ rpc = "done"
    /\ rop.kind = "delete"
    /\ mutReply = "2xx"
    /\ cache = NoCache
    /\ cacheTimestamp = NoTimestamp
    /\ now = 1

(***************************************************************************)
(* once() followed by off(), checked under SpecOnceOff.                    *)
(***************************************************************************)

\* C40 as claimed: a handler registered with once(kind, h) and removed with off(kind, h)
\* before any emit(kind) is not invoked by a later emit(kind): no invocation goes
\* through a wrapper that off() was called against.
C40_AsClaimed == \A i \in DOMAIN invoked : invoked[i].wrapper \notin revoked
\* once(client:created, 4), off(client:created, 4), emit(client:created): handler 4 ran.
C40_Witness ==
    /\ eresult = "returned"
    /\ revoked = {1}
    /\ invoked = <<[id |-> 4, wrapper |-> 1, event |-> "client:created", depth |-> 1]>>
    /\ wrapperCalls = <<1>>

====
